---- MODULE Spec2Model ----
(***************************************************************************)
(* githubfs: the virtual tree engine (dir.go, file.go, dirhandle.go).      *)
(*                                                                         *)
(* Nodes live in a heap, a sequence of node records; a node's identity is  *)
(* its index in the heap and the nil pointer is index 0.  A Go string that *)
(* is used as a path is represented by the sequence of its "/"-separated   *)
(* segments (what strings.Split(s, "/") returns), so "a/b" is <<"a","b">>, *)
(* "a/" is <<"a","">> and "" is <<"">>; s + "/" + t is then s \o t.        *)
(*                                                                         *)
(* Spec builds a scaffold and resolves paths from the root; SpecDirHandle   *)
(* fills a directory and opens, reads and closes handles on it;            *)
(* SpecSnapshot changes a directory while a handle on it is read;          *)
(* SpecFileHandle creates a file and opens, reads and closes handles on    *)
(* it; SpecMkdir calls makeDirs in one piece, SpecConcurrentMkdir from two *)
(* threads; SpecTarball imports an archive into a scaffold; SpecListing     *)
(* lists directories through the remote.  SpecOpen and SpecReleases call   *)
(* Open on the FS object of githubfs.go against a remote; SpecPath builds   *)
(* chains of directories and reads the paths they record;                  *)
(* SpecConcurrentHandle calls one directory handle from two threads and    *)
(* SpecConcurrentFind walks one tree from two threads; SpecEntryInfo lists *)
(* a directory and then opens its files; SpecConcurrentOpen opens one file *)
(* from two threads and SpecConcurrentClose closes handles from two        *)
(* threads.                                                                *)
(***************************************************************************)
EXTENDS Integers, Sequences, FiniteSets, TLC

VARIABLES
    heap,     \* the nodes: dir and file objects
    calls,    \* per node, what the invocations of its capability have returned so far
    handles,  \* the dirHandle objects handed out
    hist,     \* per handle, what its ReadDir calls have returned so far
    threads,  \* per thread that calls makeDirs, where it is in the call
    gfs,      \* the FS object: its inputs, its remote, the connected flag
    last      \* the last operation: its arguments, what it returned, the state before

vars == <<heap, calls, handles, hist, threads, gfs, last>>

---------------------------------------------------------------------------
(* Bounds *)

\* nodes the heap can hold, the root included
MaxNodes == 5
\* invocations of one directory's capability that are followed
MaxCalls == 2
\* largest count passed to ReadDir
MaxN == 3
\* children of a directory that is listed through a handle
MaxEntries == 2
\* the calls of tarballToTree that fit on the stack, one inside the other
MaxImportDepth == 3

\* the nodes that direct calls of newDir, makeDirs and addFile create: the
\* scaffold is the root and two more nodes, every further node comes from a fetch
ScaffoldNodes == {2, 3}

\* names of children
Names == {"a", "b"}
\* paths handed to find
FindPaths == {<<x>> : x \in Names} \cup {<<x, y>> : x \in Names, y \in Names}
               \cup {<<"a", "b", "a">>, <<"b", "a", "b">>}

---------------------------------------------------------------------------
(* Node model: dir (dir.go) and file (file.go) *)

NilNode == 0

NoErr == <<>>

NoChildren == [k \in {} |-> NilNode]

\* the fetchFn field: no capability, the per-directory listing, the bulk import
FetchKinds == {"none", "list", "bulk"}

\* a dir with the fields that newDir fills in from the parent; path is a
\* slice: its elements, the array that backs it (pathArr, 0 for none) and its
\* capacity (pathCap)
DirNode(name, parent, path, org, repo, branch) ==
    [kind |-> "dir", name |-> name, parent |-> parent, path |-> path,
     pathArr |-> 0, pathCap |-> 0,
     org |-> org, repo |-> repo, branch |-> branch,
     children |-> NoChildren, fetchFn |-> "none", modTime |-> 0,
     mode |-> "d0755", size |-> 0, content |-> <<>>, url |-> <<>>]

\* a file with the fields that newFile fills in from the parent
FileNode(name, parent, org, repo) ==
    [kind |-> "file", name |-> name, parent |-> parent, path |-> <<>>,
     pathArr |-> 0, pathCap |-> 0,
     org |-> org, repo |-> repo, branch |-> "",
     children |-> NoChildren, fetchFn |-> "none", modTime |-> 0,
     mode |-> "0644", size |-> 0, content |-> <<>>, url |-> <<>>]

IsDir(h, n) == n # NilNode /\ h[n].kind = "dir"
IsFile(h, n) == n # NilNode /\ h[n].kind = "file"

Dirs(h) == {n \in 1..Len(h) : h[n].kind = "dir"}

Root == 1

\* d.children[name] = n
SetChild(h, d, name, n) ==
    [h EXCEPT ![d].children = (name :> n) @@ h[d].children]

---------------------------------------------------------------------------
(* Builder: newDir, makeDirs, addFile and their options *)

\* one dirOpt applied to the node under construction
ApplyDirOpt(node, opt) ==
    CASE opt.opt = "withFetcher" -> [node EXCEPT !.fetchFn = opt.val]
      [] opt.opt = "withOrg" -> [node EXCEPT !.org = opt.val]
      [] opt.opt = "withRepo" -> [node EXCEPT !.repo = opt.val]
      [] opt.opt = "withBranch" -> [node EXCEPT !.branch = opt.val]
      [] opt.opt = "notInPath" -> [node EXCEPT !.path = <<>>, !.pathArr = 0, !.pathCap = 0]
      [] opt.opt = "withDirModTime" -> [node EXCEPT !.modTime = opt.val]
      [] OTHER -> node

RECURSIVE ApplyDirOpts(_, _)
ApplyDirOpts(node, opts) ==
    IF opts = <<>> THEN node
    ELSE ApplyDirOpts(ApplyDirOpt(node, Head(opts)), Tail(opts))

\* one fileOpt applied to the file under construction
ApplyFileOpt(node, opt) ==
    CASE opt.opt = "withContent" ->
             [node EXCEPT !.content = opt.val, !.size = Len(opt.val)]
      [] opt.opt = "withUrl" -> [node EXCEPT !.url = opt.val]
      [] opt.opt = "withModTime" -> [node EXCEPT !.modTime = opt.val]
      [] opt.opt = "withMode" -> [node EXCEPT !.mode = opt.val]
      [] opt.opt = "withSize" ->
             IF Len(node.content) = 0 THEN [node EXCEPT !.size = opt.val] ELSE node
      [] OTHER -> node

RECURSIVE ApplyFileOpts(_, _)
ApplyFileOpts(node, opts) ==
    IF opts = <<>> THEN node
    ELSE ApplyFileOpts(ApplyFileOpt(node, Head(opts)), Tail(opts))

\* the capacity of the array that append allocates for a slice of `need`
\* strings when the old array holds `old` (growslice of the gc runtime: twice
\* the old capacity, or what is needed if that is more)
GrowCap(need, old) == IF need > 2 * old THEN need ELSE 2 * old

\* append(d.path, name) stores name behind the elements of d.path: in a new
\* array when the array of d.path is full, else in the array of d.path itself,
\* where every slice on that array that is long enough sees it
appendStored(h, d, name) ==
    IF Len(h[d].path) < h[d].pathCap
    THEN [m \in DOMAIN h |->
            IF h[m].pathArr = h[d].pathArr /\ Len(h[m].path) > Len(h[d].path)
            THEN [h[m] EXCEPT !.path[Len(h[d].path) + 1] = name]
            ELSE h[m]]
    ELSE h

\* the slice that append(d.path, name) returns for the new node n
appendSlice(node, h, d, n) ==
    IF Len(h[d].path) < h[d].pathCap
    THEN [node EXCEPT !.pathArr = h[d].pathArr, !.pathCap = h[d].pathCap]
    ELSE [node EXCEPT !.pathArr = n, !.pathCap = GrowCap(Len(h[d].path) + 1, h[d].pathCap)]

\* fault: a path that is copied into an array of its own
newDirCopied(h, d, name, opts) ==
    LET n == Len(h) + 1
        node == ApplyDirOpts([DirNode(name, d, Append(h[d].path, name),
                                      h[d].org, h[d].repo, h[d].branch)
                              EXCEPT !.pathArr = n, !.pathCap = Len(h[d].path) + 1], opts)
    IN [heap |-> SetChild(Append(h, node), d, name, n), node |-> n, panic |-> FALSE]

\* (d *dir) newDir(name, opts...): the new node is linked under name, whatever
\* was there before; returns the heap and the new node
newDir(h, d, name, opts) ==
    LET n == Len(h) + 1
        node == ApplyDirOpts(appendSlice(DirNode(name, d, Append(h[d].path, name),
                                                 h[d].org, h[d].repo, h[d].branch),
                                         h, d, n), opts)
    IN [heap |-> SetChild(Append(appendStored(h, d, name), node), d, name, n),
        node |-> n, panic |-> FALSE]

RECURSIVE makeDirs(_, _, _, _)

\* fault: makeDirs that never looks for the directory and always creates it
makeDirsAnew(h, d, parts, opts) ==
    LET rv == newDir(h, d, Head(parts), opts)
    IN IF Len(parts) > 1 THEN makeDirs(rv.heap, rv.node, Tail(parts), opts) ELSE rv

\* (d *dir) makeDirs(parts, opts...): next.(*dir) panics when the child found
\* is a file
makeDirs(h, d, parts, opts) ==
    LET part == Head(parts) IN
    IF part \in DOMAIN h[d].children
    THEN LET next == h[d].children[part] IN
         IF ~IsDir(h, next) THEN [heap |-> h, node |-> NilNode, panic |-> TRUE]
         ELSE IF Len(parts) > 1 THEN makeDirs(h, next, Tail(parts), opts)
         ELSE [heap |-> h, node |-> next, panic |-> FALSE]
    ELSE LET rv == newDir(h, d, part, opts)
             h2 == SetChild(rv.heap, d, part, rv.node)
         IN IF Len(parts) > 1 THEN makeDirs(h2, rv.node, Tail(parts), opts)
            ELSE [heap |-> h2, node |-> rv.node, panic |-> FALSE]

\* newFile(parent, name, opts...)
newFile(h, parent, name, opts) ==
    ApplyFileOpts(FileNode(name, parent, h[parent].org, h[parent].repo), opts)

\* fault: addFile that leaves a child that has the name where it is
addFileKeeping(h, d, name, opts) ==
    LET n == Len(h) + 1
        h2 == Append(h, newFile(h, d, name, opts))
    IN [heap |-> IF name \in DOMAIN h[d].children THEN h2 ELSE SetChild(h2, d, name, n),
        node |-> n, panic |-> FALSE]

\* (d *dir) addFile(name, opts...)
addFile(h, d, name, opts) ==
    LET n == Len(h) + 1
    IN [heap |-> SetChild(Append(h, newFile(h, d, name, opts)), d, name, n),
        node |-> n, panic |-> FALSE]

\* (d *dir) fullPath(): the names from below the root down to d, joined by "/"
RECURSIVE NamesToRoot(_, _)
NamesToRoot(h, p) ==
    IF p = NilNode THEN <<>>
    ELSE IF h[p].parent # NilNode THEN Append(NamesToRoot(h, h[p].parent), h[p].name)
    ELSE NamesToRoot(h, h[p].parent)

\* strings.Join(parts, "/")
Join(parts) == IF parts = <<>> THEN <<"">> ELSE parts

fullPath(h, d) == Join(NamesToRoot(h, d))

---------------------------------------------------------------------------
(* Path strings: path/filepath and strings helpers used by the importer *)

\* strings.TrimSuffix(path, "/")
TrimSuffixSlash(s) ==
    IF Len(s) >= 2 /\ s[Len(s)] = "" THEN SubSeq(s, 1, Len(s) - 1) ELSE s

\* fault: the leading directory of the archive is kept
tarSplitPathUnstripped(path) == TrimSuffixSlash(path)

\* tarSplitPath(path): drop a trailing "/", split, drop the leading directory
tarSplitPath(path) == Tail(TrimSuffixSlash(path))

\* filepath.Split(path): the directory part (it keeps its final "/") and the file
filepathSplit(s) ==
    IF Len(s) = 1 THEN [dir |-> <<"">>, file |-> s[1]]
    ELSE [dir |-> Append(SubSeq(s, 1, Len(s) - 1), ""), file |-> s[Len(s)]]

\* filepath.Clean: the elements that remain after "", "." and ".." are resolved
RECURSIVE CleanStack(_, _, _)
CleanStack(segs, stack, rooted) ==
    IF segs = <<>> THEN stack
    ELSE LET e == Head(segs)
             rest == Tail(segs)
         IN IF e = "" \/ e = "." THEN CleanStack(rest, stack, rooted)
            ELSE IF e = ".."
            THEN IF Len(stack) > 0 /\ stack[Len(stack)] # ".."
                 THEN CleanStack(rest, SubSeq(stack, 1, Len(stack) - 1), rooted)
                 ELSE IF ~rooted THEN CleanStack(rest, Append(stack, ".."), rooted)
                 ELSE CleanStack(rest, stack, rooted)
            ELSE CleanStack(rest, Append(stack, e), rooted)

filepathClean(s) ==
    LET rooted == Len(s) >= 2 /\ s[1] = ""
        stack == CleanStack(s, <<>>, rooted)
    IN IF rooted THEN <<"">> \o (IF stack = <<>> THEN <<"">> ELSE stack)
       ELSE IF stack = <<>> THEN <<".">> ELSE stack

\* filepath.Base of a cleaned path: its last element, "/" for the root path
filepathBase(s) ==
    IF Len(s) = 2 /\ s[1] = "" /\ s[2] = "" THEN "/" ELSE s[Len(s)]

---------------------------------------------------------------------------
(* Remote collaborators *)

ghModeFile == 33188
ghModeExecutable == 33261
ghModeSubmodule == 57344
ghModeSymlink == 40960
ghModeDirectory == 16384

\* what the remote lists for the tree object at path (a path string)
RemoteEntries(path) ==
    IF path = <<"">>
    THEN <<[name |-> "a", mode |-> ghModeFile], [name |-> "b", mode |-> ghModeDirectory]>>
    ELSE IF path = <<"a">>
    THEN <<[name |-> "a", mode |-> ghModeExecutable], [name |-> "b", mode |-> ghModeSymlink]>>
    ELSE IF path = <<"b">>
    THEN <<[name |-> "b", mode |-> ghModeSubmodule], [name |-> "a", mode |-> ghModeFile],
           [name |-> "b", mode |-> 7]>>
    ELSE <<[name |-> "a", mode |-> ghModeFile]>>

\* the archives the remote serves: entries of tar headers with their content
Reg(name, content) ==
    [type |-> "reg", name |-> name, linkname |-> <<"">>, content |-> content, modTime |-> 1]
DirEntry(name) ==
    [type |-> "dir", name |-> name, linkname |-> <<"">>, content |-> <<>>, modTime |-> 1]
Link(name, linkname) ==
    [type |-> "link", name |-> name, linkname |-> linkname, content |-> <<>>, modTime |-> 1]
\* an entry at which tr.Next() returns an error other than io.EOF
Damaged(name) ==
    [type |-> "err", name |-> name, linkname |-> <<"">>, content |-> <<>>, modTime |-> 1]
\* a regular file whose content cannot be read: buf.ReadFrom(tr) returns an error
Truncated(name) ==
    [type |-> "trunc", name |-> name, linkname |-> <<"">>, content |-> <<>>, modTime |-> 1]

simpleTar == <<Reg(<<"t", "a">>, <<1>>), DirEntry(<<"t", "b", "">>)>>
symlinksTar == <<Reg(<<"t", "a">>, <<1>>), Link(<<"t", "b">>, <<"a">>)>>
badlinkTar == <<Reg(<<"t", "a">>, <<1>>), Link(<<"t", "b">>, <<"zz">>)>>

Archives == {simpleTar, symlinksTar, badlinkTar}

---------------------------------------------------------------------------
(* Lazy fetch protocol, path resolver and tarball importer.  An execution  *)
(* threads st = [heap, calls, panic]; env is what the remote answers during *)
(* the operation: the directory whose remote call fails and the archive it *)
(* serves.                                                                 *)

ErrNotExist(part) == <<"directory not found", part, "ErrNotExist">>

\* errors.Is(err, target)
ErrorIs(err, target) == \E i \in 1..Len(err) : err[i] = target

\* the history of the invocations of d's capability in c: how many returned
\* nil, whether one returned an error, and whether one began while an import
\* into d was in progress
CallsOf(c, d) ==
    IF d \in DOMAIN c THEN c[d] ELSE [ok |-> 0, failed |-> FALSE, nested |-> FALSE]

\* the invocation of d's capability begins; env.importing lists the
\* directories whose tarballToTree is on the stack
Noted(st, d, env) ==
    IF \E k \in DOMAIN env.importing : env.importing[k] = d
    THEN [st EXCEPT !.calls = (d :> [CallsOf(st.calls, d) EXCEPT !.nested = TRUE]) @@ st.calls]
    ELSE st

\* the invocation of d's capability that returned r, added to the history; an
\* invocation that panicked has not returned
Counted(r, d) ==
    IF r.st.panic THEN r
    ELSE
    [st |-> [r.st EXCEPT !.calls =
                (d :> IF r.err = NoErr
                      THEN [CallsOf(r.st.calls, d) EXCEPT !.ok = @ + 1]
                      ELSE [CallsOf(r.st.calls, d) EXCEPT !.failed = TRUE]) @@ r.st.calls],
     err |-> r.err]

RECURSIVE ListEntries(_, _, _, _)

\* fault: an entry of unknown mode is skipped
ListEntriesSkipping(st, d, entries, url) ==
    IF entries = <<>> THEN [st |-> st, err |-> NoErr]
    ELSE CASE Head(entries).mode = ghModeFile ->
                  ListEntries([st EXCEPT !.heap = addFile(st.heap, d, Head(entries).name,
                                   <<[opt |-> "withUrl",
                                      val |-> Append(url, Head(entries).name)]>>).heap],
                              d, Tail(entries), url)
           [] Head(entries).mode = ghModeExecutable ->
                  ListEntries([st EXCEPT !.heap = addFile(st.heap, d, Head(entries).name,
                                   <<[opt |-> "withUrl",
                                      val |-> Append(url, Head(entries).name)],
                                     [opt |-> "withMode", val |-> "0755"]>>).heap],
                              d, Tail(entries), url)
           [] Head(entries).mode = ghModeDirectory ->
                  ListEntries([st EXCEPT !.heap = newDir(st.heap, d, Head(entries).name,
                                   <<[opt |-> "withFetcher", val |-> "list"]>>).heap],
                              d, Tail(entries), url)
           [] OTHER -> ListEntries(st, d, Tail(entries), url)

\* the loop of getGitDirV3_3 over the entries of the answer; url is the raw
\* url of the directory, to which the name of the entry is joined
ListEntries(st, d, entries, url) ==
    IF entries = <<>> THEN [st |-> st, err |-> NoErr]
    ELSE CASE Head(entries).mode = ghModeFile ->
                  ListEntries([st EXCEPT !.heap = addFile(st.heap, d, Head(entries).name,
                                   <<[opt |-> "withUrl",
                                      val |-> Append(url, Head(entries).name)]>>).heap],
                              d, Tail(entries), url)
           [] Head(entries).mode = ghModeExecutable ->
                  ListEntries([st EXCEPT !.heap = addFile(st.heap, d, Head(entries).name,
                                   <<[opt |-> "withUrl",
                                      val |-> Append(url, Head(entries).name)],
                                     [opt |-> "withMode", val |-> "0755"]>>).heap],
                              d, Tail(entries), url)
           [] Head(entries).mode = ghModeDirectory ->
                  ListEntries([st EXCEPT !.heap = newDir(st.heap, d, Head(entries).name,
                                   <<[opt |-> "withFetcher", val |-> "list"]>>).heap],
                              d, Tail(entries), url)
           [] Head(entries).mode = ghModeSubmodule -> ListEntries(st, d, Tail(entries), url)
           [] Head(entries).mode = ghModeSymlink -> ListEntries(st, d, Tail(entries), url)
           [] OTHER -> [st |-> st, err |-> <<"unknown file mode">>]

\* getGitDirV3_3(gfs, d): the per-directory listing capability
getGitDirV3_3(st, d, env) ==
    IF env.failAt = d THEN [st |-> st, err |-> <<"query error">>]
    ELSE ListEntries(st, d, RemoteEntries(Join(st.heap[d].path)),
                     <<"rawUrl", st.heap[d].org, st.heap[d].repo, st.heap[d].branch>>
                         \o Join(st.heap[d].path))

RECURSIVE findLoop(_, _, _, _, _, _)
RECURSIVE tarLoop(_, _, _, _)

\* fault: the capability of the directory is left in place during the import
tarballToTreeKeeping(st, d, archive, env) ==
    IF Len(env.importing) >= MaxImportDepth
    THEN [st |-> [st EXCEPT !.panic = TRUE], err |-> NoErr]
    ELSE tarLoop(st, d, archive, [env EXCEPT !.importing = Append(@, d)])

\* (d *dir) tarballToTree(tarball); a call that finds MaxImportDepth imports
\* on the stack exhausts it
tarballToTree(st, d, archive, env) ==
    IF Len(env.importing) >= MaxImportDepth
    THEN [st |-> [st EXCEPT !.panic = TRUE], err |-> NoErr]
    ELSE tarLoop([st EXCEPT !.heap[d].fetchFn = "none"], d, archive,
                 [env EXCEPT !.importing = Append(@, d)])

\* the bulk import capability: download the archive, then tarballToTree
bulkImport(st, d, env) ==
    IF env.failAt = d THEN [st |-> st, err |-> <<"download error">>]
    ELSE tarballToTree(st, d, env.archive, env)

\* the capability fn called on d
InvokeAs(st, d, fn, env) ==
    Counted(IF fn = "list" THEN getGitDirV3_3(Noted(st, d, env), d, env)
            ELSE bulkImport(Noted(st, d, env), d, env), d)

\* d.fetchFn(d.gfs, d)
Invoke(st, d, env) == InvokeAs(st, d, st.heap[d].fetchFn, env)

\* fault: fetch that keeps the capability after a successful invocation
ClearFetchFnSkipped(st, d) == st

\* d.fetchFn = nil after a successful invocation
ClearFetchFn(st, d) == [st EXCEPT !.heap[d].fetchFn = "none"]

\* fmt.Errorf("githubfs filesystem error can't fetch a directory: %w", err)
WrapFetchErr(err) == <<"githubfs filesystem error can't fetch a directory">> \o err

\* (d *dir) fetch() once the capability has returned r
fetchReturn(r, d) ==
    IF r.st.panic THEN [st |-> r.st, err |-> NoErr, inv |-> TRUE, cause |-> NoErr]
    ELSE IF r.err # NoErr
    THEN [st |-> r.st, inv |-> TRUE, cause |-> r.err, err |-> WrapFetchErr(r.err)]
    ELSE [st |-> ClearFetchFn(r.st, d), err |-> NoErr, inv |-> TRUE, cause |-> NoErr]

\* (d *dir) fetch(); inv tells whether the capability was invoked and cause is
\* the error it returned
fetch(st, d, env) ==
    IF st.heap[d].fetchFn # "none" THEN fetchReturn(Invoke(st, d, env), d)
    ELSE [st |-> st, err |-> NoErr, inv |-> FALSE, cause |-> NoErr]

FetchEvent(d, f) ==
    [ev |-> "fetch", d |-> d, part |-> "", inv |-> f.inv, ok |-> f.err = NoErr,
     cause |-> f.cause]
LookupEvent(d, part, found) ==
    [ev |-> "lookup", d |-> d, part |-> part, inv |-> FALSE, ok |-> found, cause |-> NoErr]

FindResult(st, d, f, err, log) ==
    [st |-> st, dir |-> d, file |-> f, err |-> err, log |-> log]

\* fault: the test for the last segment off by one
IsLastPartOffByOne(i, parts) == i + 1 = Len(parts)

\* i+1 == len(parts), for the 1-based i of the model
IsLastPart(i, parts) == i = Len(parts)

\* fault: a walk that ignores the error of fetch
FetchFailedIgnored(f) == FALSE

\* if err := cur.fetch(); err != nil
FetchFailed(f) == f.err # NoErr

\* find after its loop, once the fetch of the terminal directory has returned f
findEndReturn(f, cur, log) ==
    IF f.st.panic THEN FindResult(f.st, NilNode, NilNode, NoErr, log)
    ELSE IF FetchFailed(f) THEN FindResult(f.st, NilNode, NilNode, f.err, log)
    ELSE FindResult(f.st, cur, NilNode, NoErr, log)

\* the terminal directory fetched by f, and the log with that fetch
findEndFetched(f, cur, log) == findEndReturn(f, cur, Append(log, FetchEvent(cur, f)))

\* fault: find that returns the terminal directory without fetching it
findEndUnfetched(st, cur, env, log) == FindResult(st, cur, NilNode, NoErr, log)

\* find after its loop: the fetch of the terminal directory
findEnd(st, cur, env, log) == findEndFetched(fetch(st, cur, env), cur, log)

\* the body of the loop of find after the lookup of parts[i] in cur, which
\* found child (NilNode when there is none); f is what the fetch returned
findChild(f, cur, child, parts, i, env, log) ==
    IF child = NilNode
    THEN FindResult(f.st, NilNode, NilNode, ErrNotExist(parts[i]), log)
    ELSE IF IsFile(f.st.heap, child)
    THEN IF IsLastPart(i, parts)
         THEN FindResult(f.st, cur, child, NoErr, log)
         ELSE FindResult(f.st, NilNode, NilNode, ErrNotExist(parts[i]), log)
    ELSE findLoop(f.st, child, parts, i + 1, env, log)

\* the body of the loop of find once cur.fetch() has returned f; log holds
\* that fetch
findStep(f, cur, parts, i, env, log) ==
    IF f.st.panic THEN FindResult(f.st, NilNode, NilNode, NoErr, log)
    ELSE IF FetchFailed(f) THEN FindResult(f.st, NilNode, NilNode, f.err, log)
    ELSE IF parts[i] \in DOMAIN f.st.heap[cur].children
    THEN findChild(f, cur, f.st.heap[cur].children[parts[i]], parts, i, env,
                   Append(log, LookupEvent(cur, parts[i], TRUE)))
    ELSE findChild(f, cur, NilNode, parts, i, env,
                   Append(log, LookupEvent(cur, parts[i], FALSE)))

\* cur fetched by f in the loop of find, and the log with that fetch
findFetched(f, cur, parts, i, env, log) ==
    findStep(f, cur, parts, i, env, Append(log, FetchEvent(cur, f)))

\* (d *dir) find(path): the loop over the parts; log lists the fetch calls and
\* the child lookups of this walk in order
findLoop(st, cur, parts, i, env, log) ==
    IF i > Len(parts) THEN findEnd(st, cur, env, log)
    ELSE findFetched(fetch(st, cur, env), cur, parts, i, env, log)

find(st, d, path, env) == findLoop(st, d, path, 1, env, <<>>)

\* fault: the link gets a copy of the target, not the target
tarLinkInsertCopy(t, l, linkname) ==
    IF l.st.panic \/ l.err # NoErr THEN [st |-> l.st, err |-> l.err]
    ELSE LET target == IF t.file # NilNode THEN t.file ELSE t.dir
             copied == Append(l.st.heap, l.st.heap[target])
         IN [st |-> [l.st EXCEPT !.heap = SetChild(copied, l.dir, filepathBase(linkname),
                                                   Len(copied))],
             err |-> NoErr]

\* the link entry once both walks have returned: t for the target, l for the
\* directory of the link; linkname is the cleaned path of the link
tarLinkInsert(t, l, linkname) ==
    IF l.st.panic \/ l.err # NoErr THEN [st |-> l.st, err |-> l.err]
    ELSE IF t.file # NilNode
    THEN [st |-> [l.st EXCEPT !.heap = SetChild(l.st.heap, l.dir,
                                                filepathBase(linkname), t.file)],
          err |-> NoErr]
    ELSE [st |-> [l.st EXCEPT !.heap = SetChild(l.st.heap, l.dir,
                                                filepathSplit(linkname).file, t.dir)],
          err |-> NoErr]

\* fault: a link whose target is not found is skipped
tarLinkTargetUnchecked(t, linkname, env) ==
    IF t.st.panic THEN [st |-> t.st, err |-> t.err]
    ELSE IF t.err # NoErr THEN [st |-> t.st, err |-> NoErr]
    ELSE tarLinkInsert(t, find(t.st, Root, filepathClean(filepathSplit(linkname).dir), env),
                       linkname)

\* the link entry once the walk to the target has returned t
tarLinkTarget(t, linkname, env) ==
    IF t.st.panic \/ t.err # NoErr THEN [st |-> t.st, err |-> t.err]
    ELSE tarLinkInsert(t, find(t.st, Root, filepathClean(filepathSplit(linkname).dir), env),
                       linkname)

\* the body of the loop of tarballToTree for a link entry; insertPoint is
\* d.fullPath()
tarLink(st, insertPoint, hdr, env) ==
    tarLinkTarget(find(st, Root,
                       filepathClean(insertPoint
                                     \o Join(tarSplitPath(filepathSplit(hdr.name).dir))
                                     \o hdr.linkname),
                       env),
                  filepathClean(insertPoint \o Join(tarSplitPath(hdr.name))), env)

\* a regular file or a directory entry once makeDirs has returned mk
tarMade(st, mk, hdr) ==
    IF mk.panic THEN [st |-> [st EXCEPT !.heap = mk.heap, !.panic = TRUE], err |-> NoErr]
    ELSE IF hdr.type = "dir" THEN [st |-> [st EXCEPT !.heap = mk.heap], err |-> NoErr]
    ELSE [st |-> [st EXCEPT !.heap = addFile(mk.heap, mk.node, filepathSplit(hdr.name).file,
                      <<[opt |-> "withModTime", val |-> hdr.modTime],
                        [opt |-> "withContent", val |-> hdr.content]>>).heap],
          err |-> NoErr]

\* the directories to make for an entry
tarParts(hdr) ==
    IF hdr.type \in {"reg", "trunc"} THEN tarSplitPath(filepathSplit(hdr.name).dir)
    ELSE tarSplitPath(hdr.name)

\* makeDirs(parts, withDirModTime(hdr.ModTime)) when there are parts
tarLeaf(st, d, parts, hdr) ==
    IF Len(parts) > 0
    THEN makeDirs(st.heap, d, parts, <<[opt |-> "withDirModTime", val |-> hdr.modTime]>>)
    ELSE [heap |-> st.heap, node |-> d, panic |-> FALSE]

\* a regular file whose content cannot be read, once makeDirs has returned mk
tarTruncated(st, mk) ==
    IF mk.panic THEN [st |-> [st EXCEPT !.heap = mk.heap, !.panic = TRUE], err |-> NoErr]
    ELSE [st |-> [st EXCEPT !.heap = mk.heap], err |-> <<"unexpected EOF">>]

\* the body of the loop of tarballToTree for a regular file or a directory
tarMake(st, d, hdr) == tarMade(st, tarLeaf(st, d, tarParts(hdr), hdr), hdr)

\* fault: the loop goes on after an entry that failed and returns its error
\* at the end
tarNextContinuing(r, d, rest, env) ==
    IF r.st.panic THEN r
    ELSE IF r.err # NoErr THEN [st |-> tarLoop(r.st, d, rest, env).st, err |-> r.err]
    ELSE tarLoop(r.st, d, rest, env)

\* the loop of tarballToTree after the entry that returned r
tarNext(r, d, rest, env) ==
    IF r.st.panic \/ r.err # NoErr THEN r ELSE tarLoop(r.st, d, rest, env)

tarLoop(st, d, entries, env) ==
    IF entries = <<>> THEN [st |-> st, err |-> NoErr]
    ELSE tarNext(CASE Head(entries).type = "err" -> [st |-> st, err |-> <<"tar read error">>]
                   [] Head(entries).type \in {"reg", "dir"} -> tarMake(st, d, Head(entries))
                   [] Head(entries).type = "trunc" ->
                          tarTruncated(st, tarLeaf(st, d, tarParts(Head(entries)),
                                                   Head(entries)))
                   [] Head(entries).type = "link" ->
                          tarLink(st, fullPath(st.heap, d), Head(entries), env)
                   [] OTHER -> [st |-> st, err |-> NoErr],
                 d, Tail(entries), env)

---------------------------------------------------------------------------
(* Directory handle: dirhandle.go and (d *dir) newDirHandle *)

NoInfo == [name |-> "", size |-> 0, modTime |-> 0, mode |-> ""]

\* (d *dir) toFileInfo(): a new fileInfo with a nominal size
toFileInfo(node) ==
    [name |-> node.name, size |-> 4096, modTime |-> node.modTime, mode |-> node.mode]

\* the info field of a file
FileInfoOf(node) ==
    [name |-> node.name, size |-> node.size, modTime |-> node.modTime, mode |-> node.mode]

\* fault: an entry that holds a copy of the info of a file
toDirEntryCopied(h, child) ==
    IF h[child].kind = "file" THEN [ref |-> NilNode, info |-> FileInfoOf(h[child])]
    ELSE [ref |-> NilNode, info |-> toFileInfo(h[child])]

\* toDirEntry: a directory's entry holds a new fileInfo, a file's entry points
\* to the info field of the file (ref)
toDirEntry(h, child) ==
    IF h[child].kind = "file" THEN [ref |-> child, info |-> NoInfo]
    ELSE [ref |-> NilNode, info |-> toFileInfo(h[child])]

\* (d *dirEntry) Info()
EntryInfo(h, e) == IF e.ref # NilNode THEN FileInfoOf(h[e.ref]) ELSE e.info

\* (d *dirEntry) Name()
EntryName(h, e) == EntryInfo(h, e).name

EntryNames(h, entries) == [i \in 1..Len(entries) |-> EntryName(h, entries[i])]

\* the orders in which a range over the map can visit the keys
Orders(keys) ==
    {o \in [1..Cardinality(keys) -> keys] : \A i, j \in DOMAIN o : i # j => o[i] # o[j]}

\* fault: a range over the children that skips the directories
newDirHandleFilesOnly(h, d, order) ==
    [info |-> toFileInfo(h[d]),
     entries |-> LET files == SelectSeq(order, LAMBDA k : IsFile(h, h[d].children[k]))
                 IN [i \in 1..Len(files) |-> toDirEntry(h, h[d].children[files[i]])],
     index |-> 0, closed |-> FALSE]

\* (d *dir) newDirHandle(), the range over d.children visiting the keys in order
newDirHandle(h, d, order) ==
    [info |-> toFileInfo(h[d]),
     entries |-> [i \in 1..Len(order) |-> toDirEntry(h, h[d].children[order[i]])],
     index |-> 0, closed |-> FALSE]

ErrClosed(name) == <<"stat", name, "ErrClosed">>

\* the cursor that ReadDir(n <= 0) leaves
UnboundedIndex(l) == l - 1

\* fault: a loop that stops one entry early at the end of the entries
BoundedCountShort(n, index, l) == IF n < l - index THEN n ELSE l - index - 1

\* the entries that the loop of ReadDir(n > 0) appends
BoundedCount(n, index, l) == IF n < l - index THEN n ELSE l - index

\* fault: a short batch returned without the end-of-sequence signal
BoundedErrLate(n, c) == IF c > 0 THEN NoErr ELSE <<"EOF">>

\* the error after the loop of ReadDir(n > 0) has appended c entries
BoundedErr(n, c) == IF n - c = 0 THEN NoErr ELSE <<"EOF">>

\* (d *dirHandle) ReadDir(n) on handle record dh: the handle afterwards, the
\* batch and the error; isNil tells a nil slice from an empty one
ReadDir(dh, n) ==
    LET l == Len(dh.entries)
        have == SubSeq(dh.entries, dh.index + 1, l)
    IN IF dh.closed
       THEN [dh |-> dh, batch |-> <<>>, isNil |-> TRUE, err |-> ErrClosed(dh.info.name)]
       ELSE IF Len(have) = 0
       THEN [dh |-> dh, batch |-> have, isNil |-> l = 0, err |-> <<"EOF">>]
       ELSE IF n <= 0
       THEN [dh |-> [dh EXCEPT !.index = UnboundedIndex(l)], batch |-> have,
             isNil |-> FALSE, err |-> NoErr]
       ELSE LET c == BoundedCount(n, dh.index, l)
            IN [dh |-> [dh EXCEPT !.index = dh.index + c],
                batch |-> SubSeq(dh.entries, dh.index + 1, dh.index + c),
                isNil |-> FALSE,
                err |-> BoundedErr(n, c)]

\* (d *dirHandle) Stat()
Stat(dh) ==
    IF dh.closed THEN [info |-> NoInfo, isNil |-> TRUE, err |-> ErrClosed(dh.info.name)]
    ELSE [info |-> dh.info, isNil |-> FALSE, err |-> NoErr]

\* (d *dirHandle) Read(b)
Read(dh) ==
    IF dh.closed THEN [bytes |-> 0, err |-> ErrClosed(dh.info.name)]
    ELSE [bytes |-> 0, err |-> <<"is a directory not a file">>]

\* fault: Close that does not mark the handle
CloseUnmarked(dh) ==
    IF dh.closed THEN [dh |-> dh, err |-> ErrClosed(dh.info.name)]
    ELSE [dh |-> dh, err |-> NoErr]

\* (d *dirHandle) Close()
Close(dh) ==
    IF dh.closed THEN [dh |-> dh, err |-> ErrClosed(dh.info.name)]
    ELSE [dh |-> [dh EXCEPT !.closed = TRUE], err |-> NoErr]

---------------------------------------------------------------------------
(* File handle: filehandle.go and (f *file) newFileHandle *)

\* the bytes the remote serves at a raw url
RemoteContent(url) == IF url = <<"u", "empty">> THEN <<>> ELSE <<1, 2>>

\* how a download can end: a body, no answer, a status other than 200, an
\* answer whose body cannot be read to its end
GetOutcomes == {"ok", "transport", "status", "body"}

NoBuffer == [buf |-> <<>>, off |-> 0]

\* bytes.NewBuffer(content)
NewBuffer(content) == [buf |-> content, off |-> 0]

\* copy(p, b.buf[b.off:]): the number of bytes copied into p of length n
copy(n, avail) == IF n < avail THEN n ELSE avail

\* fault: a read offset that skips the byte after the ones copied
AdvancedTooFar(off, c) == off + c + 1

\* b.off += n
Advanced(off, c) == off + c

\* (b *bytes.Buffer) Read(p) with len(p) = n: an empty buffer is reset and
\* answers io.EOF, unless p is empty too
BufferRead(b, n) ==
    IF b.off >= Len(b.buf)
    THEN [b |-> NoBuffer, data |-> <<>>, err |-> IF n = 0 THEN NoErr ELSE <<"EOF">>]
    ELSE LET c == copy(n, Len(b.buf) - b.off)
         IN [b |-> [b EXCEPT !.off = Advanced(b.off, c)],
             data |-> SubSeq(b.buf, b.off + 1, b.off + c), err |-> NoErr]

NoFileHandle == [info |-> NoInfo, content |-> NoBuffer, closed |-> FALSE]

\* newFileHandle(info, content)
newFileHandle(info, content) ==
    [info |-> info, content |-> NewBuffer(content), closed |-> FALSE]

FileErrClosed(op, name) == <<op, name, "ErrClosed">>

\* (f *fileHandle) Stat()
fileHandleStat(fh) ==
    IF fh.closed
    THEN [info |-> NoInfo, isNil |-> TRUE, err |-> FileErrClosed("stat", fh.info.name)]
    ELSE [info |-> fh.info, isNil |-> FALSE, err |-> NoErr]

\* (f *fileHandle) Read(b) with len(b) = n
fileHandleRead(fh, n) ==
    IF fh.closed
    THEN [fh |-> fh, data |-> <<>>, err |-> FileErrClosed("read", fh.info.name)]
    ELSE LET r == BufferRead(fh.content, n)
         IN [fh |-> [fh EXCEPT !.content = r.b], data |-> r.data, err |-> r.err]

\* fault: Close that keeps the handle open
fileHandleCloseUnmarked(fh) ==
    IF fh.closed THEN [fh |-> fh, err |-> FileErrClosed("close", fh.info.name)]
    ELSE [fh |-> [fh EXCEPT !.content = NoBuffer], err |-> NoErr]

\* (f *fileHandle) Close(): the buffer is dropped
fileHandleClose(fh) ==
    IF fh.closed THEN [fh |-> fh, err |-> FileErrClosed("close", fh.info.name)]
    ELSE [fh |-> [fh EXCEPT !.closed = TRUE, !.content = NoBuffer], err |-> NoErr]

\* what (f *file) newFileHandle returns when it has a handle to give
Opened(h, f, got) ==
    [heap |-> h, fh |-> newFileHandle(FileInfoOf(h[f]), h[f].content), isNil |-> FALSE,
     err |-> NoErr, got |-> got]

\* fault: a failed download that forgets the advisory size
OpenFailedSizeLost(h, f, err) ==
    [heap |-> [h EXCEPT ![f].size = 0], fh |-> NoFileHandle, isNil |-> TRUE, err |-> err,
     got |-> TRUE]

\* what (f *file) newFileHandle returns when the download has failed
OpenFailed(h, f, err) ==
    [heap |-> h, fh |-> NoFileHandle, isNil |-> TRUE, err |-> err, got |-> TRUE]

\* fault: a download that leaves the recorded size as it was
DownloadSizeKept(h, f, outcome) ==
    IF h[f].url = <<>> \/ outcome # "ok"
    THEN OpenFailed(h, f, <<"Get", "transport error">>)
    ELSE Opened([h EXCEPT ![f].content = RemoteContent(h[f].url)], f, TRUE)

\* f.gfs.httpClient.Get(f.url) and what follows it; a file without a url
\* cannot be requested
Download(h, f, outcome) ==
    IF h[f].url = <<>> \/ outcome = "transport"
    THEN OpenFailed(h, f, <<"Get", "transport error">>)
    ELSE IF outcome = "status"
    THEN OpenFailed(h, f, <<"http status code not 200">>)
    ELSE IF outcome = "body"
    THEN OpenFailed(h, f, <<"unexpected EOF">>)
    ELSE Opened([h EXCEPT ![f].content = RemoteContent(h[f].url),
                          ![f].size = Len(RemoteContent(h[f].url))], f, TRUE)

\* (f *file) newFileHandle(): got tells whether the remote was asked
file_newFileHandle(h, f, outcome) ==
    IF Len(h[f].content) # h[f].size THEN Download(h, f, outcome)
    ELSE Opened(h, f, FALSE)

---------------------------------------------------------------------------
(* The FS object (githubfs.go): options, connect, get, Open *)

dirNameGit == "git"
dirNameReleases == "releases"

\* WithFullOrg(org, allowArchivedrepos...) and WithRepo(org, repo): the input
\* each appends to gfs.inputs
WithFullOrg(org, allowArchived) ==
    [org |-> org, repo |-> "", branch |-> "", allowArchived |-> allowArchived]
WithRepo(org, repo) ==
    [org |-> org, repo |-> repo, branch |-> "", allowArchived |-> TRUE]

\* what the remote answers: the repositories of the owner in name order and
\* how many of them a page holds, the pages of releases of a repository
NoRemote == [repos |-> <<>>, pageSize |-> 1, releases |-> <<>>]

\* New(): no inputs, not connected, no directory marked as fetched (entries
\* holds d.entries of the directories whose isFetched is set)
NoFS == [inputs |-> <<>>, gqlClient |-> NoRemote, connected |-> FALSE,
         entries |-> [d \in {} |-> <<>>]]

\* a range over a map visits the keys in an order that differs from run to run
\* (every order of up to two keys)
MapOrder(keys, flip) ==
    LET base == CHOOSE o \in Orders(keys) : TRUE
    IN IF flip THEN [i \in 1..Len(base) |-> base[Len(base) + 1 - i]] ELSE base

\* gfs.gqlClient.Query: the request is issued and fails if it is the one the
\* remote refuses
Query(f, req, env) ==
    [f |-> [f EXCEPT !.log = Append(@, req)], ok |-> Len(f.log) + 1 # env.failAt]

ErrQuery == <<"query failed">>

\* the pages of a result
RECURSIVE Pages(_, _)
Pages(items, size) ==
    IF Len(items) <= size THEN <<items>>
    ELSE <<SubSeq(items, 1, size)>> \o Pages(SubSeq(items, size + 1, Len(items)), size)

\* (gfs *FS) newDir() with the fields findOrAdd fills in
gfsNewDir(name, org, repo, branch) ==
    [DirNode(name, NilNode, <<>>, org, repo, branch) EXCEPT !.mode = "d"]

\* (gfs *FS) findOrAdd: the tree is the children map of directory d
findOrAdd(h, d, name, org, repo, branch) ==
    IF name \in DOMAIN h[d].children THEN [heap |-> h, node |-> h[d].children[name]]
    ELSE [heap |-> SetChild(Append(h, gfsNewDir(name, org, repo, branch)), d, name, Len(h) + 1),
          node |-> Len(h) + 1]

SetSize(r, size) == [r EXCEPT !.heap[r.node].size = size]

newRepoBranch(git, org, repo, branch, size) ==
    IF branch # "" THEN SetSize(findOrAdd(git.heap, git.node, branch, org, repo, branch), size).heap
    ELSE git.heap

newRepoGit(h, r, org, repo, branch, size) ==
    newRepoBranch(SetSize(findOrAdd(h, r, dirNameGit, org, repo, ""), size), org, repo, branch, size)

newRepoRel(r, org, repo, branch, releases, size) ==
    newRepoGit(IF releases THEN findOrAdd(r.heap, r.node, dirNameReleases, org, repo, "").heap
               ELSE r.heap,
               r.node, org, repo, branch, size)

newRepoOrg(o, org, repo, branch, releases, size) ==
    newRepoRel(SetSize(findOrAdd(o.heap, o.node, repo, org, repo, ""), size),
               org, repo, branch, releases, size)

\* (gfs *FS) newRepo: org, repo, releases if there are any, git and the branch
newRepo(h, org, repo, branch, releases, size) ==
    newRepoOrg(findOrAdd(h, Root, org, org, "", ""), org, repo, branch, releases, size)

\* fault: archived repositories are let in whatever the input allows
AdmitsArchived(s, name, rep) ==
    ~(rep.isDisabled \/ rep.nameWithOwner # <<s.org, name>>)

\* the condition of fetchRepo and fetchRepos under which a repository is kept
Admits(s, name, rep) ==
    ~((~s.allowArchived /\ rep.isArchived)
      \/ rep.isDisabled
      \/ rep.nameWithOwner # <<s.org, name>>)

\* the repository the remote resolves (name, owner) to, if any
RepoNamed(f, name) ==
    SelectSeq(f.gqlClient.repos, LAMBDA rep : rep.name = name)

fetchRepoAnswer(q, s, found) ==
    IF ~q.ok \/ found = <<>> THEN [f |-> q.f, err |-> ErrQuery]
    ELSE IF ~Admits(s, s.repo, found[1]) THEN [f |-> q.f, err |-> NoErr]
    ELSE [f |-> [q.f EXCEPT !.heap =
                    newRepo(@, s.org, s.repo,
                            IF s.branch = "" THEN found[1].branch ELSE s.branch,
                            found[1].releases > 0, found[1].diskUsage)],
          err |-> NoErr]

\* (gfs *FS) fetchRepo
fetchRepo(f, s, env) ==
    fetchRepoAnswer(Query(f, <<"repository", s.org, s.repo>>, env), s, RepoNamed(f, s.repo))

RECURSIVE fetchReposEdges(_, _, _)
\* fetchRepos: the loop over the edges of one page
fetchReposEdges(h, s, edges) ==
    IF edges = <<>> THEN h
    ELSE fetchReposEdges(
            IF Admits(s, Head(edges).name, Head(edges))
            THEN newRepo(h, s.org, Head(edges).name, Head(edges).branch,
                         Head(edges).releases > 0, Head(edges).diskUsage)
            ELSE h,
            s, Tail(edges))

RECURSIVE fetchReposPages(_, _, _, _, _)
fetchReposPage(q, s, pages, after, env) ==
    IF ~q.ok THEN [f |-> q.f, err |-> ErrQuery]
    ELSE IF Len(pages) > 1
    THEN fetchReposPages([q.f EXCEPT !.heap = fetchReposEdges(@, s, Head(pages))],
                         s, Tail(pages), after + 1, env)
    ELSE [f |-> [q.f EXCEPT !.heap = fetchReposEdges(@, s, Head(pages))], err |-> NoErr]

\* (gfs *FS) fetchRepos: one request per page while HasNextPage
fetchReposPages(f, s, pages, after, env) ==
    fetchReposPage(Query(f, <<"repositories", s.org, after>>, env), s, pages, after, env)

fetchRepos(f, s, env) ==
    fetchReposPages(f, s, Pages(f.gqlClient.repos, f.gqlClient.pageSize), 0, env)

RECURSIVE connectLoop(_, _, _)
connectNext(r, rest, env) ==
    IF r.err # NoErr THEN r ELSE connectLoop(r.f, rest, env)

\* connect: the inputs in turn, the first error ends it
connectLoop(f, inputs, env) ==
    IF inputs = <<>> THEN [f |-> [f EXCEPT !.connected = TRUE], err |-> NoErr]
    ELSE connectNext(IF Head(inputs).repo = "" THEN fetchRepos(f, Head(inputs), env)
                     ELSE fetchRepo(f, Head(inputs), env),
                     Tail(inputs), env)

\* fault: connect that does not look at gfs.connected
connectAlways(f, env) ==
    connectLoop(f, SelectSeq(f.inputs, LAMBDA s : s.repo = "")
                   \o SelectSeq(f.inputs, LAMBDA s : s.repo # ""), env)

\* (gfs *FS) connect: whole owners first, then the repositories given by name
connect(f, env) ==
    IF f.connected THEN [f |-> f, err |-> NoErr]
    ELSE connectLoop(f, SelectSeq(f.inputs, LAMBDA s : s.repo = "")
                        \o SelectSeq(f.inputs, LAMBDA s : s.repo # ""), env)

\* (d *dir) newDir of githubfs.go: a directory that is not yet linked
dirNewDir(h, d, name) ==
    [DirNode(name, NilNode, <<>>, h[d].org, h[d].repo, h[d].branch) EXCEPT !.mode = "0755"]

\* (d *dir) newFile of githubfs.go
dirNewFile(h, d, name, size, mode) ==
    [FileNode(name, NilNode, h[d].org, h[d].repo) EXCEPT
        !.branch = h[d].branch, !.size = size, !.mode = mode]

\* the entry fetched() makes of a child
fetchedEntry(node) ==
    [ref |-> NilNode,
     info |-> IF node.kind = "file" THEN FileInfoOf(node)
              ELSE [toFileInfo(node) EXCEPT !.mode = IF node.mode = "0755" THEN "d0755" ELSE "d"]]

\* (d *dir) fetched(): the first call marks the directory and fills d.entries
fetched(f, d, env) ==
    IF d \in DOMAIN f.entries THEN f
    ELSE [f EXCEPT !.entries =
            (d :> [i \in 1..Cardinality(DOMAIN f.heap[d].children) |->
                      fetchedEntry(f.heap[f.heap[d].children[
                          MapOrder(DOMAIN f.heap[d].children, env.flip)[i]]])]) @@ @]

\* d.children[node.name] = node for a new node
LinkChild(h, d, node) == SetChild(Append(h, node), d, node.name, Len(h) + 1)

RECURSIVE getGitDirEntries(_, _, _)
\* getGitDir: the loop over the entries of the tree
getGitDirEntries(f, d, entries) ==
    IF entries = <<>> THEN [f |-> f, err |-> NoErr]
    ELSE CASE Head(entries).mode = ghModeFile ->
                getGitDirEntries([f EXCEPT !.heap =
                    LinkChild(@, d, dirNewFile(@, d, Head(entries).name, 0, "0644"))], d, Tail(entries))
           [] Head(entries).mode = ghModeExecutable ->
                getGitDirEntries([f EXCEPT !.heap =
                    LinkChild(@, d, dirNewFile(@, d, Head(entries).name, 0, "0755"))], d, Tail(entries))
           [] Head(entries).mode = ghModeDirectory ->
                getGitDirEntries([f EXCEPT !.heap =
                    LinkChild(@, d, dirNewDir(@, d, Head(entries).name))], d, Tail(entries))
           [] Head(entries).mode \in {ghModeSubmodule, ghModeSymlink} ->
                getGitDirEntries(f, d, Tail(entries))
           [] OTHER -> [f |-> [f EXCEPT !.panic = TRUE], err |-> NoErr]

getGitDirAnswer(q, d, parts) ==
    IF ~q.ok THEN [f |-> q.f, err |-> ErrQuery]
    ELSE getGitDirEntries(q.f, d, RemoteEntries(Join(parts)))

\* (gfs *FS) getGitDir: the tree object at branch:parts
getGitDir(f, d, parts, env) ==
    getGitDirAnswer(Query(f, <<"object", f.heap[d].org, f.heap[d].repo, f.heap[d].branch>>
                             \o parts, env), d, parts)

descriptionName == "description.md"

RECURSIVE releaseAssets(_, _, _)
\* getReleaseDir: a file per asset
releaseAssets(h, relDir, assets) ==
    IF assets = <<>> THEN h
    ELSE releaseAssets(
            LinkChild(h, relDir, [dirNewFile(h, relDir, Head(assets).name, Head(assets).size, "0644")
                                  EXCEPT !.url = Head(assets).downloadUrl]),
            relDir, Tail(assets))

\* getReleaseDir: the directory of a release with its description and assets
releaseDir(h, relDir, node) ==
    releaseAssets(
        LinkChild(h, relDir, [dirNewFile(h, relDir, descriptionName, Len(node.description), "0644")
                              EXCEPT !.content = node.description]),
        relDir, node.assets)

\* fault: prereleases are listed
releaseEdgePre(f, d, node, env) ==
    IF node.isDraft THEN f
    ELSE fetched([f EXCEPT !.heap = releaseDir(LinkChild(@, d, dirNewDir(@, d, node.tag)),
                                               Len(@) + 1, node)],
                 Len(f.heap) + 1, env)

\* getReleaseDir: one edge of a page
releaseEdge(f, d, node, env) ==
    IF node.isDraft \/ node.isPrerelease THEN f
    ELSE fetched([f EXCEPT !.heap = releaseDir(LinkChild(@, d, dirNewDir(@, d, node.tag)),
                                               Len(@) + 1, node)],
                 Len(f.heap) + 1, env)

RECURSIVE releaseEdges(_, _, _, _)
releaseEdges(f, d, edges, env) ==
    IF edges = <<>> THEN f
    ELSE releaseEdges(releaseEdge(f, d, Head(edges), env), d, Tail(edges), env)

RECURSIVE releasePages(_, _, _, _, _)
releasePage(q, d, pages, after, env) ==
    IF ~q.ok THEN [f |-> q.f, err |-> ErrQuery]
    ELSE IF Len(pages) > 1
    THEN releasePages(releaseEdges(q.f, d, Head(pages), env), d, Tail(pages), after + 1, env)
    ELSE [f |-> releaseEdges(q.f, d, Head(pages), env), err |-> NoErr]

\* getReleaseDir: one request per page while HasNextPage
releasePages(f, d, pages, after, env) ==
    releasePage(Query(f, <<"releases", f.heap[d].org, f.heap[d].repo, after>>, env),
                d, pages, after, env)

\* (gfs *FS) getReleaseDir
getReleaseDir(f, d, env) == releasePages(f, d, f.gqlClient.releases, 0, env)

\* get: what is fetched when the walk reaches the directory cur at parts[i]
getFetch(f, cur, parts, i, env) ==
    IF cur \in DOMAIN f.entries \/ i < 3 THEN [f |-> f, err |-> NoErr]
    ELSE CASE parts[3] = dirNameGit ->
                IF Len(parts) >= 4 /\ i >= 4 THEN getGitDir(f, cur, SubSeq(parts, 5, i), env)
                ELSE [f |-> f, err |-> NoErr]
           [] parts[3] = dirNameReleases -> getReleaseDir(f, cur, env)
           [] OTHER -> [f |-> f, err |-> NoErr]

GetResult(f, node, err) == [f |-> f, node |-> node, err |-> err]

RECURSIVE getLoop(_, _, _, _, _)
getFetched(r, cur, parts, i, env) ==
    IF r.err # NoErr \/ r.f.panic THEN GetResult(r.f, NilNode, r.err)
    ELSE getLoop(r.f, cur, parts, i + 1, env)

getChild(f, child, parts, i, env) ==
    IF child = NilNode
    THEN GetResult(f, NilNode, <<"not a directory", parts[i], "ErrNotExist">>)
    ELSE IF IsFile(f.heap, child)
    THEN IF i = Len(parts) THEN GetResult(f, child, NoErr)
         ELSE GetResult(f, NilNode, <<"no such file or directory", parts[i], "ErrNotExist">>)
    ELSE getFetched(getFetch(f, child, parts, i, env), child, parts, i, env)

\* get: the loop over the parts of the path
getLoop(f, cur, parts, i, env) ==
    IF i > Len(parts) THEN GetResult(f, cur, NoErr)
    ELSE getChild(f, IF parts[i] \in DOMAIN f.heap[cur].children
                     THEN f.heap[cur].children[parts[i]] ELSE NilNode,
                  parts, i, env)

\* fault: the root token is looked up like any other name
getByLookup(f, path, env) == getLoop(f, Root, path, 1, env)

\* (gfs *FS) get
get(f, path, env) ==
    IF path = <<".">> THEN GetResult(f, Root, NoErr)
    ELSE getLoop(f, Root, path, 1, env)

\* fs.ValidPath: the root token, or elements none of which is empty, "." or ".."
ValidPath(name) ==
    \/ name = <<".">>
    \/ \A i \in 1..Len(name) : name[i] \notin {"", ".", ".."}

OpenResult(f, node, err) == [f |-> f, node |-> node, err |-> err]

PathError(name, err) == <<"open", name>> \o err

\* Open: a file is returned as a new file object, a directory as a handle
\* on it
OpenGot(g, name, env) ==
    IF g.f.panic THEN OpenResult(g.f, NilNode, NoErr)
    ELSE IF g.err # NoErr
    THEN OpenResult(g.f, NilNode, PathError(name, <<"error fetching the file">> \o g.err))
    ELSE IF IsFile(g.f.heap, g.node) THEN OpenResult(g.f, g.node, NoErr)
    ELSE OpenResult(fetched(g.f, g.node, env), g.node, NoErr)

OpenConnected(c, name, env) ==
    IF c.err # NoErr
    THEN OpenResult(c.f, NilNode, PathError(name, <<"error connecting">> \o c.err))
    ELSE OpenGot(get(c.f, name, env), name, env)

\* fault: the path is checked once the filesystem has connected
OpenUnchecked(f, name, env) ==
    IF ~ValidPath(name) THEN OpenResult(connect(f, env).f, NilNode, PathError(name, <<"ErrInvalid">>))
    ELSE OpenConnected(connect(f, env), name, env)

\* (gfs *FS) Open
Open(f, name, env) ==
    IF ~ValidPath(name) THEN OpenResult(f, NilNode, PathError(name, <<"ErrInvalid">>))
    ELSE OpenConnected(connect(f, env), name, env)

---------------------------------------------------------------------------
(* State machine *)

NoHandle == [info |-> NoInfo, entries |-> <<>>, index |-> 0, closed |-> FALSE]

\* per handle: the directory it lists and the names of that directory's children
\* when it was created, whether the children have changed since, and what its
\* ReadDir calls were and returned
NoHist == [dir |-> NilNode, snap |-> <<>>, mutated |-> FALSE, drained |-> FALSE,
           bounded |-> TRUE, sum |-> 0, got |-> <<>>, eof |-> FALSE]

NoCalls == [n \in {} |-> [ok |-> 0, failed |-> FALSE, nested |-> FALSE]]

NoLast == [op |-> "init", path |-> <<>>, dir |-> NilNode,
           file |-> NilNode, err |-> NoErr, log |-> <<>>, hadFn |-> {}, preLen |-> 0,
           preCalls |-> NoCalls, panic |-> FALSE,
           h |-> 0, n |-> 0, batch |-> <<>>, isNil |-> FALSE, info |-> NoInfo,
           bytes |-> 0, pre |-> NoHandle, preHist |-> NoHist,
           opts |-> <<>>, outcome |-> "", got |-> FALSE,
           preNode |-> FileNode("", NilNode, "", ""), preHandles |-> <<>>,
           preHeap |-> <<>>, from |-> NilNode, t |-> 0, archive |-> <<>>,
           failAt |-> 0, transparent |-> {}]

\* the threads that call makeDirs at the same time
Threads == {1, 2}

\* a thread in makeDirs: the statement it is at, the directory and the parts
\* it was called with, the receiver and the parts of the innermost call, the
\* directory it has just created, all the directories it has created and the
\* directory it has returned
NoThread == [pc |-> "idle", from |-> NilNode, path |-> <<>>, d |-> NilNode,
             parts |-> <<>>, opts |-> <<>>, rv |-> NilNode, made |-> {},
             ret |-> NilNode]

\* the option lists the builder actions pass
DirOptSets == {<<>>, <<[opt |-> "withFetcher", val |-> "list"]>>,
               <<[opt |-> "withFetcher", val |-> "bulk"]>>,
               <<[opt |-> "notInPath", val |-> ""], [opt |-> "withFetcher", val |-> "list"]>>}
FileOptSets == {<<[opt |-> "withContent", val |-> <<1>>]>>}
MakeDirsParts == {<<x>> : x \in Names} \cup {<<x, y>> : x \in Names, y \in Names}

\* the counts passed to ReadDir
ReadDirCounts == (0 - 1)..MaxN

Running == ~last.panic

Fits(st) ==
    /\ Len(st.heap) <= MaxNodes
    /\ \A n \in DOMAIN st.calls : st.calls[n].ok <= MaxCalls

\* the histories once the heap has become h2: a handle whose directory has other
\* children than before is marked
Touched(h2) ==
    [i \in DOMAIN hist |->
        [hist[i] EXCEPT !.mutated =
            @ \/ h2[hist[i].dir].children # heap[hist[i].dir].children]]

\* New(): the root directory
Init ==
    /\ heap = <<DirNode(".", NilNode, <<>>, "", "", "")>>
    /\ calls = NoCalls
    /\ handles = <<>>
    /\ hist = <<>>
    /\ threads = [t \in Threads |-> NoThread]
    /\ gfs = NoFS
    /\ last = NoLast

NewDir(d, name, opts) ==
    /\ Running
    /\ Len(heap) + 1 \in ScaffoldNodes
    /\ LET r == newDir(heap, d, name, opts)
       IN /\ heap' = r.heap
          /\ hist' = Touched(r.heap)
          /\ last' = [NoLast EXCEPT !.op = "newDir", !.dir = r.node]
    /\ UNCHANGED <<calls, handles, threads, gfs>>

MakeDirs(d, parts, opts) ==
    /\ Running
    /\ LET r == makeDirs(heap, d, parts, opts)
       IN /\ \A n \in (Len(heap) + 1)..Len(r.heap) : n \in ScaffoldNodes
          /\ heap' = r.heap
          /\ hist' = Touched(r.heap)
          /\ last' = [NoLast EXCEPT !.op = "makeDirs", !.dir = r.node, !.panic = r.panic]
    /\ UNCHANGED <<calls, handles, threads, gfs>>

AddFile(d, name, opts) ==
    /\ Running
    /\ Len(heap) + 1 \in ScaffoldNodes
    /\ LET r == addFile(heap, d, name, opts)
       IN /\ heap' = r.heap
          /\ hist' = Touched(r.heap)
          /\ last' = [NoLast EXCEPT !.op = "addFile", !.file = r.node]
    /\ UNCHANGED <<calls, handles, threads, gfs>>

HadFn == {d \in Dirs(heap) : heap[d].fetchFn # "none"}

\* the archives that a walk can be served: one when no bulk import can run
Served ==
    IF \E d \in Dirs(heap) : heap[d].fetchFn = "bulk" THEN Archives ELSE {simpleTar}

\* the state after a walk or an import that returned r
Returned(r) ==
    /\ Fits(r.st)
    /\ heap' = r.st.heap
    /\ calls' = r.st.calls
    /\ hist' = Touched(r.st.heap)
    /\ UNCHANGED <<handles, threads, gfs>>

FindReturned(r, path) ==
    /\ Returned(r)
    /\ last' = [NoLast EXCEPT !.op = "find", !.path = path,
                   !.dir = r.dir, !.file = r.file, !.err = r.err, !.log = r.log,
                   !.hadFn = HadFn, !.preLen = Len(heap), !.preCalls = calls,
                   !.panic = r.st.panic]

\* gfs.root.find(path)
Find(path, failAt, archive) ==
    /\ Running
    /\ FindReturned(find([heap |-> heap, calls |-> calls, panic |-> FALSE], Root, path,
                         [failAt |-> failAt, archive |-> archive, importing |-> <<>>]), path)

Next ==
    \/ \E d \in Dirs(heap), name \in Names, opts \in DirOptSets : NewDir(d, name, opts)
    \/ \E d \in Dirs(heap), parts \in MakeDirsParts : MakeDirs(d, parts, <<>>)
    \/ \E d \in Dirs(heap), name \in Names, opts \in FileOptSets : AddFile(d, name, opts)
    \/ \E path \in FindPaths, failAt \in {NilNode} \cup HadFn, archive \in Served :
           Find(path, failAt, archive)

Spec == Init /\ [][Next]_vars

---------------------------------------------------------------------------
(* Directory handles: the handle opened last is observed.  Handles share no *)
(* field with each other; an earlier handle is dropped when one is opened.  *)

\* the names of the children that are listed
EntryPool == {"a", "b", "c"}

\* root.addFile(name) or root.newDir(name) while no handle has been opened
AddEntry(name, isDir) ==
    /\ Running
    /\ handles = <<>>
    /\ name \notin DOMAIN heap[Root].children
    /\ Cardinality(DOMAIN heap[Root].children) < MaxEntries
    /\ LET r == IF isDir THEN newDir(heap, Root, name, <<>>)
                ELSE addFile(heap, Root, name, <<[opt |-> "withContent", val |-> <<1>>]>>)
       IN /\ heap' = r.heap
          /\ last' = [NoLast EXCEPT !.op = "addEntry"]
    /\ UNCHANGED <<calls, handles, hist, threads, gfs>>

TarballReturned(r, d) ==
    /\ Returned(r)
    /\ last' = [NoLast EXCEPT !.op = "tarballToTree", !.dir = d, !.err = r.err,
                   !.panic = r.st.panic]

\* d.tarballToTree(tarball) called on a directory, as the tests do
TarballToTree(d, archive) ==
    /\ Running
    /\ TarballReturned(tarballToTree([heap |-> heap, calls |-> calls, panic |-> FALSE], d,
                                     archive, [failAt |-> NilNode, archive |-> archive,
                                      importing |-> <<>>]), d)

\* d.newDirHandle(), the range visiting the children in order
OpenDir(d, order) ==
    /\ Running
    /\ LET dh == newDirHandle(heap, d, order)
       IN /\ handles' = <<dh>>
          /\ hist' = <<[NoHist EXCEPT !.dir = d,
                           !.snap = [i \in 1..Len(order) |->
                                        heap[heap[d].children[order[i]]].name]]>>
          /\ last' = [NoLast EXCEPT !.op = "newDirHandle", !.dir = d, !.h = 1]
    /\ UNCHANGED <<heap, calls, threads, gfs>>

\* what a ReadDir(n) that returned r adds to the history hs of its handle: the
\* calls on the open handle count, the bounded ones up to the first that
\* returns the end-of-sequence signal
Recorded(hs, n, r) ==
    IF ErrorIs(r.err, "ErrClosed") THEN hs
    ELSE IF n <= 0 THEN [hs EXCEPT !.bounded = FALSE, !.drained = TRUE]
    ELSE IF hs.bounded /\ ~hs.eof
    THEN [hs EXCEPT !.sum = hs.sum + n, !.got = hs.got \o r.batch,
                    !.eof = r.err = <<"EOF">>]
    ELSE hs

DoReadDir(h, n) ==
    /\ Running
    /\ LET r == ReadDir(handles[h], n)
       IN /\ handles' = [handles EXCEPT ![h] = r.dh]
          /\ hist' = [hist EXCEPT ![h] = Recorded(hist[h], n, r)]
          /\ last' = [NoLast EXCEPT !.op = "ReadDir", !.h = h, !.n = n, !.batch = r.batch,
                         !.isNil = r.isNil, !.err = r.err, !.pre = handles[h],
                         !.preHist = hist[h]]
    /\ UNCHANGED <<heap, calls, threads, gfs>>

DoStat(h) ==
    /\ Running
    /\ LET r == Stat(handles[h])
       IN last' = [NoLast EXCEPT !.op = "Stat", !.h = h, !.info = r.info, !.isNil = r.isNil,
                      !.err = r.err, !.pre = handles[h], !.preHist = hist[h]]
    /\ UNCHANGED <<heap, calls, handles, hist, threads, gfs>>

DoRead(h) ==
    /\ Running
    /\ LET r == Read(handles[h])
       IN last' = [NoLast EXCEPT !.op = "Read", !.h = h, !.bytes = r.bytes, !.err = r.err,
                      !.pre = handles[h], !.preHist = hist[h]]
    /\ UNCHANGED <<heap, calls, handles, hist, threads, gfs>>

DoClose(h) ==
    /\ Running
    /\ LET r == Close(handles[h])
       IN /\ handles' = [handles EXCEPT ![h] = r.dh]
          /\ last' = [NoLast EXCEPT !.op = "Close", !.h = h, !.err = r.err,
                         !.pre = handles[h], !.preHist = hist[h]]
    /\ UNCHANGED <<heap, calls, hist, threads, gfs>>

\* a directory is filled, then handles on it are opened, read and closed
NextDirHandle ==
    \/ \E name \in EntryPool, isDir \in BOOLEAN : AddEntry(name, isDir)
    \/ \E order \in Orders(DOMAIN heap[Root].children) : OpenDir(Root, order)
    \/ \E h \in DOMAIN handles, n \in ReadDirCounts : DoReadDir(h, n)
    \/ \E h \in DOMAIN handles : DoStat(h)
    \/ \E h \in DOMAIN handles : DoRead(h)
    \/ \E h \in DOMAIN handles : DoClose(h)

SpecDirHandle == Init /\ [][NextDirHandle]_vars

\* the counts passed to ReadDir while the tree changes
SnapshotCounts == {0, 1}

\* the directories that are changed: any while no handle is open, then the one
\* that the handle lists
Listed == IF handles = <<>> THEN Dirs(heap) ELSE {hist[1].dir}

\* the options of the directories that are created while the tree changes
SnapshotOptSets == {<<>>, <<[opt |-> "withFetcher", val |-> "list"]>>}

\* the tree is built and changed while a handle is open and read
NextSnapshot ==
    \/ \E d \in Listed, name \in Names, opts \in SnapshotOptSets : NewDir(d, name, opts)
    \/ \E d \in Listed, name \in Names : MakeDirs(d, <<name>>, <<>>)
    \/ \E d \in Listed, name \in Names, opts \in FileOptSets : AddFile(d, name, opts)
    \/ \E name \in Names : Find(<<name>>, NilNode, simpleTar)
    \/ \E d \in Listed : TarballToTree(d, symlinksTar)
    \/ \E d \in Listed : \E order \in Orders(DOMAIN heap[d].children) : OpenDir(d, order)
    \/ \E h \in DOMAIN handles, n \in SnapshotCounts : DoReadDir(h, n)

SpecSnapshot == Init /\ [][NextSnapshot]_vars

---------------------------------------------------------------------------
(* File handles: one file is put under the root, by hand or by the listing *)
(* of the root, and handles on it are opened, read and closed.             *)

\* the two handles that are observed; opening again in a slot drops the
\* handle that was there
HandleSlots == {1, 2}

\* the bytes of a file as its creator or the remote has them: the remote's
\* when the file has a url and no content bytes
SourceBytes(node) ==
    IF node.content = <<>> /\ node.url # <<>> THEN RemoteContent(node.url) ELSE node.content

\* per file handle: the file it was opened on, the bytes of that file at its
\* source when the open began, the content of the file when newFileHandle
\* returned, the bytes its Reads have returned so far
NoFileHist == [file |-> NilNode, source |-> <<>>, content |-> <<>>, got |-> <<>>,
               eof |-> FALSE]

Contents == {<<>>, <<1, 2>>}
Urls == {<<"u", "empty">>, <<"u", "full">>}

ContentOpts == {[opt |-> "withContent", val |-> c] : c \in Contents}
SizeOpts == {[opt |-> "withSize", val |-> n] : n \in 0..MaxN}
UrlOpts == {[opt |-> "withUrl", val |-> u] : u \in Urls}

\* the option lists of newFile: content and size in any order, each at most
\* once or twice, after an optional url
ContentSizeOptLists ==
    {<<>>} \cup {<<x>> : x \in ContentOpts \cup SizeOpts}
           \cup {<<x, y>> : x \in ContentOpts \cup SizeOpts, y \in ContentOpts \cup SizeOpts}
FileHandleOptLists ==
    ContentSizeOptLists \cup {<<u>> \o l : u \in UrlOpts, l \in ContentSizeOptLists}

\* root.addFile("a", opts...) on the empty root
CreateFile(opts) ==
    /\ Running
    /\ Len(heap) = 1
    /\ LET r == addFile(heap, Root, "a", opts)
       IN /\ heap' = r.heap
          /\ last' = [NoLast EXCEPT !.op = "addFile", !.file = r.node, !.opts = opts]
    /\ UNCHANGED <<calls, handles, hist, threads, gfs>>

\* getGitDirV3_3(gfs, root) on the empty root
ListRoot ==
    /\ Running
    /\ Len(heap) = 1
    /\ LET r == getGitDirV3_3([heap |-> heap, calls |-> calls, panic |-> FALSE], Root,
                              [failAt |-> NilNode, archive |-> simpleTar, importing |-> <<>>])
       IN /\ heap' = r.st.heap
          /\ last' = [NoLast EXCEPT !.op = "getGitDirV3_3", !.dir = Root, !.err = r.err]
    /\ UNCHANGED <<calls, handles, hist, threads, gfs>>

\* the handles once slot holds x
InSlot(seq, slot, x) == IF slot > Len(seq) THEN Append(seq, x) ELSE [seq EXCEPT ![slot] = x]

\* f.newFileHandle() returned r
FileOpened(r, slot, f, outcome) ==
    /\ heap' = r.heap
    /\ handles' = IF r.isNil THEN handles ELSE InSlot(handles, slot, r.fh)
    /\ hist' = IF r.isNil THEN hist
               ELSE InSlot(hist, slot, [NoFileHist EXCEPT !.file = f,
                                                          !.source = SourceBytes(heap[f]),
                                                          !.content = r.heap[f].content])
    /\ last' = [NoLast EXCEPT !.op = "newFileHandle", !.file = f, !.h = slot,
                   !.isNil = r.isNil, !.err = r.err, !.got = r.got, !.outcome = outcome,
                   !.preNode = heap[f], !.info = r.fh.info, !.preHandles = handles]
    /\ UNCHANGED <<calls, threads, gfs>>

\* f.newFileHandle() while the remote answers with outcome
OpenFile(slot, f, outcome) ==
    /\ Running
    /\ slot <= Len(handles) + 1
    /\ FileOpened(file_newFileHandle(heap, f, outcome), slot, f, outcome)

\* what a Read that returned r adds to the history of its handle
FileRecorded(hs, r) ==
    IF ErrorIs(r.err, "ErrClosed") THEN hs
    ELSE [hs EXCEPT !.got = hs.got \o r.data, !.eof = hs.eof \/ r.err = <<"EOF">>]

DoFileRead(h, n) ==
    /\ Running
    /\ LET r == fileHandleRead(handles[h], n)
       IN /\ handles' = [handles EXCEPT ![h] = r.fh]
          /\ hist' = [hist EXCEPT ![h] = FileRecorded(hist[h], r)]
          /\ last' = [NoLast EXCEPT !.op = "Read", !.h = h, !.n = n, !.batch = r.data,
                         !.bytes = Len(r.data), !.err = r.err, !.pre = handles[h],
                         !.preHist = hist[h], !.preHandles = handles]
    /\ UNCHANGED <<heap, calls, threads, gfs>>

DoFileStat(h) ==
    /\ Running
    /\ LET r == fileHandleStat(handles[h])
       IN last' = [NoLast EXCEPT !.op = "Stat", !.h = h, !.info = r.info, !.isNil = r.isNil,
                      !.err = r.err, !.pre = handles[h], !.preHist = hist[h],
                      !.preHandles = handles]
    /\ UNCHANGED <<heap, calls, handles, hist, threads, gfs>>

DoFileClose(h) ==
    /\ Running
    /\ LET r == fileHandleClose(handles[h])
       IN /\ handles' = [handles EXCEPT ![h] = r.fh]
          /\ last' = [NoLast EXCEPT !.op = "Close", !.h = h, !.err = r.err,
                         !.pre = handles[h], !.preHist = hist[h], !.preHandles = handles]
    /\ UNCHANGED <<heap, calls, hist, threads, gfs>>

NextFileHandle ==
    \/ \E opts \in FileHandleOptLists : CreateFile(opts)
    \/ ListRoot
    \/ \E slot \in HandleSlots, f \in 1..Len(heap), outcome \in GetOutcomes :
           IsFile(heap, f) /\ OpenFile(slot, f, outcome)
    \/ \E h \in DOMAIN handles, n \in 0..MaxN : DoFileRead(h, n)
    \/ \E h \in DOMAIN handles : DoFileStat(h)
    \/ \E h \in DOMAIN handles : DoFileClose(h)

SpecFileHandle == Init /\ [][NextFileHandle]_vars

---------------------------------------------------------------------------
(* mkdir: makeDirs is called in one piece, and by threads whose statements  *)
(* interleave.  makeDirs takes no lock: a thread is between statements     *)
(* after the lookup d.children[parts[0]], after d.newDir and after the     *)
(* assignment d.children[parts[0]] = rv.                                   *)

\* the parts handed to makeDirs
MkdirParts == {<<"a">>, <<"b">>, <<"a", "b">>, <<"a", "b", "a">>}

\* the directories that makeDirs is called on in one piece: the root and the
\* node created first
MkdirReceivers == {Root, 2}

\* the parts that the threads hand to makeDirs on the root
ThreadParts == {<<"a">>, <<"a", "b">>}

\* the options of the directories that makeDirs creates
MkdirOptSets == {<<>>, <<[opt |-> "withFetcher", val |-> "list"]>>}

\* no thread has called makeDirs
Idle == \A t \in Threads : threads[t].pc = "idle"

\* d.makeDirs(parts, opts...) by one caller before the threads start
MakeDirsCall(d, parts, opts) ==
    /\ Running /\ Idle
    /\ LET r == makeDirs(heap, d, parts, opts)
       IN /\ Len(r.heap) <= MaxNodes
          /\ heap' = r.heap
          /\ last' = [NoLast EXCEPT !.op = "makeDirs", !.from = d, !.path = parts,
                         !.opts = opts, !.dir = r.node, !.panic = r.panic,
                         !.preHeap = heap]
    /\ UNCHANGED <<calls, handles, hist, threads, gfs>>

\* thread t calls d.makeDirs(parts)
ThreadCall(t, d, parts) ==
    /\ Running
    /\ threads[t].pc = "idle"
    /\ threads' = [threads EXCEPT ![t] = [NoThread EXCEPT !.pc = "lookup", !.from = d,
                                            !.path = parts, !.d = d, !.parts = parts]]
    /\ last' = [NoLast EXCEPT !.op = "call", !.t = t]
    /\ UNCHANGED <<heap, calls, handles, hist, gfs>>

\* the thread once the innermost call has the directory n for its first part:
\* the call on n with the remaining parts, or the return of n
Descended(th, n) ==
    IF Len(th.parts) > 1
    THEN [th EXCEPT !.pc = "lookup", !.d = n, !.parts = Tail(th.parts), !.rv = NilNode]
    ELSE [th EXCEPT !.pc = "done", !.ret = n, !.rv = NilNode]

\* next, found := d.children[parts[0]] and, when found, next.(*dir)
ThreadLookup(t) ==
    /\ Running
    /\ threads[t].pc = "lookup"
    /\ LET th == threads[t]
           found == Head(th.parts) \in DOMAIN heap[th.d].children
           next == heap[th.d].children[Head(th.parts)]
       IN IF ~found
          THEN /\ threads' = [threads EXCEPT ![t].pc = "newDir"]
               /\ last' = [NoLast EXCEPT !.op = "lookup", !.t = t]
          ELSE /\ threads' = IF IsDir(heap, next)
                             THEN [threads EXCEPT ![t] = Descended(th, next)]
                             ELSE threads
               /\ last' = [NoLast EXCEPT !.op = "lookup", !.t = t,
                              !.panic = ~IsDir(heap, next)]
    /\ UNCHANGED <<heap, calls, handles, hist, gfs>>

\* rv := d.newDir(parts[0], opts...)
ThreadNewDir(t) ==
    /\ Running
    /\ threads[t].pc = "newDir"
    /\ Len(heap) < MaxNodes
    /\ LET th == threads[t]
           r == newDir(heap, th.d, Head(th.parts), th.opts)
       IN /\ heap' = r.heap
          /\ threads' = [threads EXCEPT ![t].pc = "assign", ![t].rv = r.node,
                                        ![t].made = @ \cup {r.node}]
          /\ last' = [NoLast EXCEPT !.op = "newDir", !.t = t, !.dir = r.node]
    /\ UNCHANGED <<calls, handles, hist, gfs>>

\* d.children[parts[0]] = rv and what follows it
ThreadAssign(t) ==
    /\ Running
    /\ threads[t].pc = "assign"
    /\ LET th == threads[t]
       IN /\ heap' = SetChild(heap, th.d, Head(th.parts), th.rv)
          /\ threads' = [threads EXCEPT ![t] = Descended(th, th.rv)]
          /\ last' = [NoLast EXCEPT !.op = "assign", !.t = t]
    /\ UNCHANGED <<calls, handles, hist, gfs>>

\* the statement that thread t is at writes the children of its directory
WritesMap(t) == threads[t].pc \in {"newDir", "assign"}

\* the statement that thread t is at reads or writes the children of its directory
AccessesMap(t) == threads[t].pc \in {"lookup", "newDir", "assign"}

\* threads t and u are at the same map at the same time and t writes it: the
\* runtime can end the process (fatal error: concurrent map writes, or
\* concurrent map read and map write)
MapRace(t, u) ==
    /\ Running
    /\ t # u
    /\ WritesMap(t) /\ AccessesMap(u)
    /\ threads[t].d = threads[u].d
    /\ last' = [NoLast EXCEPT !.op = "fatal", !.t = t, !.panic = TRUE]
    /\ UNCHANGED <<heap, calls, handles, hist, threads, gfs>>

\* makeDirs is called in one piece on a tree of directories and files
NextMkdir ==
    \/ \E d \in Dirs(heap) \cap MkdirReceivers, parts \in MkdirParts, opts \in MkdirOptSets :
           MakeDirsCall(d, parts, opts)
    \/ \E name \in Names, opts \in FileOptSets : AddFile(Root, name, opts)

SpecMkdir == Init /\ [][NextMkdir]_vars

\* two threads call makeDirs on the root of a tree that one call in one piece
\* or one addFile may have prepared
NextConcurrentMkdir ==
    \/ \E parts \in ThreadParts : Len(heap) = 1 /\ MakeDirsCall(Root, parts, <<>>)
    \/ \E name \in Names, opts \in FileOptSets : Idle /\ AddFile(Root, name, opts)
    \/ \E t \in Threads, parts \in ThreadParts : ThreadCall(t, Root, parts)
    \/ \E t \in Threads : ThreadLookup(t)
    \/ \E t \in Threads : ThreadNewDir(t)
    \/ \E t \in Threads : ThreadAssign(t)
    \/ \E t \in Threads, u \in Threads : MapRace(t, u)

SpecConcurrentMkdir == Init /\ [][NextConcurrentMkdir]_vars

---------------------------------------------------------------------------
(* Tarball import: a scaffold is built and archives are imported into its   *)
(* directories.                                                            *)

\* the entries that the archives are made of
TarPool ==
    {Reg(<<"t", "a">>, <<1>>), Reg(<<"t", "a">>, <<>>), Reg(<<"t", "b", "a">>, <<2>>),
     Reg(<<"t", "b">>, <<3>>),
     DirEntry(<<"t", "">>), DirEntry(<<"t", "b", "">>),
     Link(<<"t", "b">>, <<"a">>), Link(<<"t", "b", "b">>, <<"..", "a">>),
     Link(<<"t", "a">>, <<"b">>), Link(<<"t", "b", "b">>, <<"..">>),
     Damaged(<<"t", "a">>),
     Truncated(<<"t", "b", "a">>)}

\* the numbers of entries of the archives
ArchiveLengths == {1, 2, 3}

TarArchives == UNION {[1..n -> TarPool] : n \in ArchiveLengths}

\* d.tarballToTree(tarball) returned r
Imported(r, d, archive) ==
    /\ Returned(r)
    /\ last' = [NoLast EXCEPT !.op = "tarballToTree", !.dir = d, !.err = r.err,
                   !.panic = r.st.panic, !.archive = archive, !.preHeap = heap]

\* d.tarballToTree(tarball) on a directory of the scaffold
ImportArchive(d, archive) ==
    /\ Running
    /\ Imported(tarballToTree([heap |-> heap, calls |-> calls, panic |-> FALSE], d,
                              archive, [failAt |-> NilNode, archive |-> archive,
                                      importing |-> <<>>]),
                d, archive)

\* no archive has been imported yet
Scaffolding == last.op \in {"init", "newDir", "addFile"}

\* one archive is imported into a directory of a scaffold
NextTarball ==
    \/ \E d \in Dirs(heap), name \in Names : Scaffolding /\ NewDir(d, name, <<>>)
    \/ \E d \in Dirs(heap), name \in Names, opts \in FileOptSets :
           Scaffolding /\ AddFile(d, name, opts)
    \/ \E d \in Dirs(heap), archive \in TarArchives :
           Scaffolding /\ ImportArchive(d, archive)

SpecTarball == Init /\ [][NextTarball]_vars

---------------------------------------------------------------------------
(* Per-directory listing: the remote answers the query of getGitDirV3_3    *)
(* with a list of entries, which is applied to a directory of a scaffold.  *)

\* the mode values the remote reports: the five known ones and two others
ListingModes ==
    {ghModeFile, ghModeExecutable, ghModeDirectory, ghModeSubmodule, ghModeSymlink, 7, 0}

ListingEntries == {[name |-> x, mode |-> m] : x \in Names, m \in ListingModes}

\* the answers: the names of the entries of a tree object are distinct
Listings ==
    {<<>>} \cup {<<e>> : e \in ListingEntries}
           \cup {p \in ListingEntries \X ListingEntries : p[1].name # p[2].name}

\* getGitDirV3_3(gfs, d) returned r for the answer entries
ListingReturned(r, d, entries) ==
    /\ Returned(r)
    /\ last' = [NoLast EXCEPT !.op = "listing", !.dir = d, !.err = r.err,
                   !.batch = entries, !.preHeap = heap]

\* getGitDirV3_3(gfs, d) when the query is answered with entries
ListDirectory(d, entries) ==
    /\ Running
    /\ ListingReturned(ListEntries([heap |-> heap, calls |-> calls, panic |-> FALSE], d,
                                   entries,
                                   <<"rawUrl", heap[d].org, heap[d].repo, heap[d].branch>>
                                       \o Join(heap[d].path)),
                       d, entries)

\* one answer is applied to a directory of a scaffold
NextListing ==
    \/ \E d \in Dirs(heap), name \in Names : Scaffolding /\ NewDir(d, name, <<>>)
    \/ \E d \in Dirs(heap), name \in Names, opts \in FileOptSets :
           Scaffolding /\ AddFile(d, name, opts)
    \/ \E d \in Dirs(heap), entries \in Listings : Scaffolding /\ ListDirectory(d, entries)

SpecListing == Init /\ [][NextListing]_vars

---------------------------------------------------------------------------
(* Open on a configured filesystem: SpecOpen and SpecReleases *)

\* the nodes the tree of a configured filesystem can grow to
MaxTreeNodes == 14
\* the calls of Open in a run
MaxOpens == 2

\* what the remote reports of a repository
Report(name, owner, archived, disabled, branch, releases) ==
    [name |-> name, nameWithOwner |-> <<owner, name>>, isArchived |-> archived,
     isDisabled |-> disabled, branch |-> branch, releases |-> releases, diskUsage |-> 1]

\* repository r in every state the remote can report, with one release
ReportsR == {Report("r", owner, a, d, "main", 1) : owner \in {"o", "x"}, a \in BOOLEAN, d \in BOOLEAN}

\* repository s: plain, archived, or without any branch
ReportsS == {Report("s", "o", FALSE, FALSE, "main", 0), Report("s", "o", TRUE, FALSE, "main", 0),
             Report("s", "o", FALSE, FALSE, "", 0)}

Asset(name) == [name |-> name, size |-> 2, downloadUrl |-> <<"u", name>>]

Release(tag, draft, pre, assets) ==
    [tag |-> tag, isDraft |-> draft, isPrerelease |-> pre, description |-> <<1>>,
     assets |-> assets]

plainReleases == <<<<Release("v1", FALSE, FALSE, <<Asset("x")>>)>>>>

\* the owner has repository r alone, or r and s on one page or on two
RepoRemotes ==
    {[repos |-> <<r>>, pageSize |-> 1, releases |-> plainReleases] : r \in ReportsR}
    \cup {[repos |-> <<Report("r", "o", FALSE, FALSE, "main", 1), s>>, pageSize |-> n,
           releases |-> plainReleases] : s \in ReportsS, n \in {1, 2}}

\* the options New is called with
InputLists ==
    {<<WithFullOrg("o", FALSE)>>, <<WithFullOrg("o", TRUE)>>, <<WithRepo("o", "r")>>,
     <<WithFullOrg("o", FALSE), WithRepo("o", "r")>>,
     <<WithRepo("o", "s"), WithFullOrg("o", FALSE)>>}

\* the names passed to Open: "/" separated, so "" is one empty element
ValidNames ==
    {<<".">>, <<"o">>, <<"o", "r">>, <<"o", "s">>, <<"o", "r", "git">>,
     <<"o", "r", "git", "main">>, <<"o", "r", "releases">>, <<"o", "r", "releases", "v1">>,
     <<"o", "r", "releases", "v1", "description.md">>}
InvalidNames ==
    {<<"">>, <<"", "o">>, <<"o", "">>, <<"o", "", "r">>, <<".", "o">>, <<"o", "..">>}
OpenNames == ValidNames \cup InvalidNames

\* which request of a call the remote refuses: none, the first or the second
FailAts == 0..2

\* the filesystem as the calls of Open thread it: the tree, the FS fields and
\* the requests the call has issued
FSState(h, g) ==
    [heap |-> h, inputs |-> g.inputs, gqlClient |-> g.gqlClient, connected |-> g.connected,
     entries |-> g.entries, log |-> <<>>, panic |-> FALSE]

\* the handle newDirHandle returns on a directory that is marked as fetched
oldDirHandle(f, d) ==
    [info |-> toFileInfo(f.heap[d]), entries |-> f.entries[d], index |-> 0, closed |-> FALSE]

OpenReturned(r, name, env) ==
    /\ Len(r.f.heap) <= MaxTreeNodes
    /\ heap' = r.f.heap
    /\ gfs' = [gfs EXCEPT !.connected = r.f.connected, !.entries = r.f.entries]
    /\ handles' = IF IsDir(r.f.heap, r.node) THEN <<oldDirHandle(r.f, r.node)>> ELSE handles
    /\ last' = [NoLast EXCEPT !.op = "open", !.path = name, !.err = r.err, !.log = r.f.log,
                   !.n = last.n + 1, !.failAt = env.failAt,
                   !.dir = IF IsDir(r.f.heap, r.node) THEN r.node ELSE NilNode,
                   !.file = IF IsFile(r.f.heap, r.node) THEN r.node ELSE NilNode,
                   !.panic = r.f.panic, !.preHeap = heap]
    /\ UNCHANGED <<calls, hist, threads>>

\* last.n counts the calls
FSOpen(name, env) ==
    /\ Running
    /\ last.n < MaxOpens
    /\ OpenReturned(Open(FSState(heap, gfs), name, env), name, env)

Fresh ==
    /\ heap = <<DirNode(".", NilNode, <<>>, "", "", "")>>
    /\ calls = NoCalls
    /\ handles = <<>>
    /\ hist = <<>>
    /\ threads = [t \in Threads |-> NoThread]
    /\ last = NoLast

\* New(opts...) against a remote
InitOpen ==
    /\ Fresh
    /\ gfs \in {[NoFS EXCEPT !.inputs = i, !.gqlClient = w] : i \in InputLists, w \in RepoRemotes}

NextOpen ==
    \E name \in OpenNames, failAt \in FailAts, flip \in BOOLEAN :
        FSOpen(name, [failAt |-> failAt, flip |-> flip])

SpecOpen == InitOpen /\ [][NextOpen]_vars

\* the releases of repository r: v1 in every state, v2 plain, with an asset
\* called like the description, or a draft; on one page or on two
ReleasesV1 == {Release("v1", d, p, <<Asset("x")>>) : d \in BOOLEAN, p \in BOOLEAN}
ReleasesV2 == {Release("v2", FALSE, FALSE, <<>>), Release("v2", FALSE, FALSE, <<Asset(descriptionName)>>),
               Release("v2", TRUE, FALSE, <<Asset("x")>>)}
ReleaseRemotes ==
    {[repos |-> <<Report("r", "o", FALSE, FALSE, "main", 2)>>, pageSize |-> 1, releases |-> pages] :
        pages \in {<<<<rs[1], rs[2]>>>> : rs \in ReleasesV1 \X ReleasesV2}
                  \cup {<<<<rs[1]>>, <<rs[2]>>>> : rs \in ReleasesV1 \X ReleasesV2}}

InitReleases ==
    /\ Fresh
    /\ gfs \in {[NoFS EXCEPT !.inputs = <<WithRepo("o", "r")>>, !.gqlClient = w] : w \in ReleaseRemotes}

SpecReleases == InitReleases /\ [][NextOpen]_vars

---------------------------------------------------------------------------
(* Concurrent calls on one directory handle: two threads call ReadDir(n > 0), *)
(* Stat and Close on the handle; every method locks d.m on entry and      *)
(* unlocks it on return, and the statements in between are steps.          *)

\* the calls the threads make on the handle in a run
MaxHandleCalls == 2

\* a thread in a method of the handle: the statement it is at, the method and
\* its argument, the slice it has built, what it returns and the handle as it
\* was when the thread got the lock
NoHandleCall == [pc |-> "idle", op |-> "", n |-> 0, asked |-> 0, rv |-> <<>>, err |-> NoErr,
                 info |-> NoInfo, pre |-> NoHandle]

HandleOps == {[op |-> "ReadDir", n |-> n] : n \in 1..MaxN}
             \cup {[op |-> "Stat", n |-> 0], [op |-> "Close", n |-> 0]}

\* the thread is between d.m.Lock() and the deferred d.m.Unlock()
HoldsMutex(th) == th.pc \in {"check", "loop", "inc", "return"}

\* fault: a lock that lets every thread in
MutexFreeAlways(t) == TRUE

\* d.m.Lock() returns once no other thread holds the mutex
MutexFree(t) == \A u \in Threads \ {t} : ~HoldsMutex(threads[u])

InCall(th) == th.pc # "idle"

\* thread t calls a method of the handle
HandleCall(t, c) ==
    /\ Running
    /\ handles # <<>>
    /\ ~InCall(threads[t])
    /\ Len(last.log) + Cardinality({u \in Threads : InCall(threads[u])}) < MaxHandleCalls
    /\ threads' = [threads EXCEPT ![t] = [NoHandleCall EXCEPT !.pc = "lock", !.op = c.op,
                                            !.n = c.n, !.asked = c.n]]
    /\ last' = [last EXCEPT !.op = "call", !.t = t]
    /\ UNCHANGED <<heap, calls, handles, hist, gfs>>

\* d.m.Lock()
HandleLock(t) ==
    /\ Running
    /\ threads[t].pc = "lock"
    /\ MutexFree(t)
    /\ threads' = [threads EXCEPT ![t].pc = "check", ![t].pre = handles[1]]
    /\ last' = [last EXCEPT !.op = "lock", !.t = t]
    /\ UNCHANGED <<heap, calls, handles, hist, gfs>>

\* the statements up to the loop of ReadDir, and the bodies of Stat and Close
HandleChecked(th, dh) ==
    IF dh.closed THEN [th |-> [th EXCEPT !.pc = "return", !.err = ErrClosed(dh.info.name)], dh |-> dh]
    ELSE IF th.op = "Stat" THEN [th |-> [th EXCEPT !.pc = "return", !.info = dh.info], dh |-> dh]
    ELSE IF th.op = "Close"
    THEN [th |-> [th EXCEPT !.pc = "return"], dh |-> [dh EXCEPT !.closed = TRUE]]
    ELSE IF Len(dh.entries) - dh.index = 0
    THEN [th |-> [th EXCEPT !.pc = "return", !.err = <<"EOF">>], dh |-> dh]
    ELSE [th |-> [th EXCEPT !.pc = "loop"], dh |-> dh]

HandleCheck(t) ==
    /\ Running
    /\ threads[t].pc = "check"
    /\ threads' = [threads EXCEPT ![t] = HandleChecked(threads[t], handles[1]).th]
    /\ handles' = [handles EXCEPT ![1] = HandleChecked(threads[t], handles[1]).dh]
    /\ last' = [last EXCEPT !.op = "check", !.t = t]
    /\ UNCHANGED <<heap, calls, hist, gfs>>

\* for n > 0 && d.index < l { rv = append(rv, d.entries[d.index]); n--
HandleLooped(th, dh) ==
    IF th.n > 0 /\ dh.index < Len(dh.entries)
    THEN [th EXCEPT !.pc = "inc", !.rv = Append(th.rv, dh.entries[dh.index + 1]), !.n = th.n - 1]
    ELSE [th EXCEPT !.pc = "return", !.err = IF th.n = 0 THEN NoErr ELSE <<"EOF">>]

HandleLoop(t) ==
    /\ Running
    /\ threads[t].pc = "loop"
    /\ threads' = [threads EXCEPT ![t] = HandleLooped(threads[t], handles[1])]
    /\ last' = [last EXCEPT !.op = "loop", !.t = t]
    /\ UNCHANGED <<heap, calls, handles, hist, gfs>>

\* d.index++ }
HandleInc(t) ==
    /\ Running
    /\ threads[t].pc = "inc"
    /\ threads' = [threads EXCEPT ![t].pc = "loop"]
    /\ handles' = [handles EXCEPT ![1].index = handles[1].index + 1]
    /\ last' = [last EXCEPT !.op = "inc", !.t = t]
    /\ UNCHANGED <<heap, calls, hist, gfs>>

\* what the log keeps of a call that has returned
Returns(t, th, dh) ==
    [t |-> t, op |-> th.op, n |-> th.asked, batch |-> th.rv, err |-> th.err, info |-> th.info,
     pre |-> th.pre, post |-> dh]

\* the method returns and the deferred d.m.Unlock() runs
HandleReturn(t) ==
    /\ Running
    /\ threads[t].pc = "return"
    /\ threads' = [threads EXCEPT ![t] = NoHandleCall]
    /\ last' = [last EXCEPT !.op = "return", !.t = t,
                   !.log = Append(last.log, Returns(t, threads[t], handles[1]))]
    /\ UNCHANGED <<heap, calls, handles, hist, gfs>>

NextConcurrentHandle ==
    \/ \E name \in EntryPool : AddEntry(name, FALSE)
    \/ \E order \in Orders(DOMAIN heap[Root].children) : handles = <<>> /\ OpenDir(Root, order)
    \/ \E t \in Threads, c \in HandleOps : HandleCall(t, c)
    \/ \E t \in Threads : HandleLock(t)
    \/ \E t \in Threads : HandleCheck(t)
    \/ \E t \in Threads : HandleLoop(t)
    \/ \E t \in Threads : HandleInc(t)
    \/ \E t \in Threads : HandleReturn(t)

SpecConcurrentHandle == Init /\ [][NextConcurrentHandle]_vars

---------------------------------------------------------------------------
(* Recorded paths: directories are made to a depth at which two siblings   *)
(* fit, some of them left out of the path.                                 *)

\* the nodes of the trees whose paths are compared
MaxPathNodes == 6

PathParts == {<<"a">>, <<"a", "b">>, <<"a", "b", "a">>, <<"a", "b", "a", "a">>,
              <<"a", "b", "a", "b">>, <<"b">>}
PathOptSets == {<<>>, <<[opt |-> "notInPath", val |-> ""]>>}

\* the new nodes are transparent when made with notInPath
PathMade(r, opts) ==
    /\ Len(r.heap) <= MaxPathNodes
    /\ heap' = r.heap
    /\ hist' = Touched(r.heap)
    /\ last' = [NoLast EXCEPT !.op = "makeDirs", !.dir = r.node, !.panic = r.panic,
                   !.preHeap = heap, !.opts = opts,
                   !.transparent = last.transparent
                        \cup (IF opts = <<>> THEN {} ELSE (Len(heap) + 1)..Len(r.heap))]
    /\ UNCHANGED <<calls, handles, threads, gfs>>

\* d.makeDirs(parts, opts...), d.newDir(name, opts...) for one part
PathMakeDirs(d, parts, opts) ==
    /\ Running
    /\ PathMade(makeDirs(heap, d, parts, opts), opts)

PathNewDir(d, name, opts) ==
    /\ Running
    /\ PathMade(newDir(heap, d, name, opts), opts)

NextPath ==
    \/ \E parts \in PathParts, opts \in PathOptSets : PathMakeDirs(Root, parts, opts)
    \/ \E d \in Dirs(heap), name \in Names, opts \in PathOptSets :
            d = Len(heap) /\ PathNewDir(d, name, opts)

SpecPath == Init /\ [][NextPath]_vars

---------------------------------------------------------------------------
(* Concurrent walks: two threads call find on the root of a tree whose     *)
(* directories carry capabilities; fetch and find take no lock, so the     *)
(* reads and writes of d.fetchFn and d.children of the threads interleave. *)

\* a thread in find: the statement it is at, the directory cur and the index
\* of the part it is at, the capability it has read in fetch, what it returns
NoWalk == [pc |-> "idle", cur |-> NilNode, parts |-> <<>>, i |-> 0, fn |-> "none",
           err |-> NoErr, ret |-> NilNode]

WalkPaths == {<<"a">>, <<"a", "a">>}
WalkOptSets == {<<[opt |-> "withFetcher", val |-> "list"]>>,
                <<[opt |-> "withFetcher", val |-> "bulk"]>>}

\* the remote serves every request of the walks
WalkEnv == [failAt |-> NilNode, archive |-> simpleTar, importing |-> <<>>]

NoWalker == \A t \in Threads : threads[t].pc = "idle"

WalkEvent(t, ev, d, cleared) == [t |-> t, ev |-> ev, d |-> d, cleared |-> cleared]

\* thread t calls gfs.root.find(path)
WalkCall(t, path) ==
    /\ Running
    /\ Len(heap) > 1
    /\ threads[t].pc = "idle"
    /\ threads' = [threads EXCEPT ![t] = [NoWalk EXCEPT !.pc = "test", !.cur = Root,
                                            !.parts = path, !.i = 1]]
    /\ last' = [last EXCEPT !.op = "call", !.t = t]
    /\ UNCHANGED <<heap, calls, handles, hist, gfs>>

\* fetch: if d.fetchFn != nil
WalkTest(t) ==
    /\ Running
    /\ threads[t].pc = "test"
    /\ threads' = [threads EXCEPT ![t].fn = heap[threads[t].cur].fetchFn,
                                  ![t].pc = IF heap[threads[t].cur].fetchFn # "none"
                                            THEN "call" ELSE "after"]
    /\ last' = [last EXCEPT !.op = "test", !.t = t]
    /\ UNCHANGED <<heap, calls, handles, hist, gfs>>

\* fetch: d.fetchFn(d.gfs, d) begins. The field is read without a lock after
\* the test, so the call uses what the test has read or what the field holds
\* now (reload); calling nil panics. tarballToTree clears the field of the
\* directory it imports into.
WalkBegin(t, reload) ==
    /\ Running
    /\ threads[t].pc = "call"
    /\ LET d == threads[t].cur
           fn == IF reload THEN heap[d].fetchFn ELSE threads[t].fn
       IN IF fn = "none"
          THEN /\ last' = [last EXCEPT !.op = "nil call", !.t = t, !.panic = TRUE]
               /\ UNCHANGED <<heap, threads>>
          ELSE /\ threads' = [threads EXCEPT ![t].pc = "invoking", ![t].fn = fn]
               /\ heap' = IF fn = "bulk" THEN [heap EXCEPT ![d].fetchFn = "none"] ELSE heap
               /\ last' = [last EXCEPT !.op = "begin", !.t = t,
                              !.log = Append(last.log,
                                         WalkEvent(t, "begin", d, heap[d].fetchFn = "none"))]
    /\ UNCHANGED <<calls, handles, hist, gfs>>

\* the thread once the capability has returned r
WalkInvoked(th, r) ==
    IF r.err # NoErr THEN [th EXCEPT !.pc = "done", !.err = WrapFetchErr(r.err)]
    ELSE [th EXCEPT !.pc = "clear"]

WalkEnded(t, d, r) ==
    /\ Len(r.st.heap) <= MaxTreeNodes
    /\ heap' = r.st.heap
    /\ calls' = r.st.calls
    /\ threads' = [threads EXCEPT ![t] = WalkInvoked(threads[t], r)]
    /\ last' = [last EXCEPT !.op = "end", !.t = t, !.panic = r.st.panic,
                   !.log = Append(last.log, WalkEvent(t, "end", d, FALSE))]
    /\ UNCHANGED <<handles, hist, gfs>>

\* fetch: the capability returns, having added the children
WalkEnd(t) ==
    /\ Running
    /\ threads[t].pc = "invoking"
    /\ WalkEnded(t, threads[t].cur,
                 InvokeAs([heap |-> heap, calls |-> calls, panic |-> FALSE], threads[t].cur,
                          threads[t].fn, WalkEnv))

\* fetch: d.fetchFn = nil
WalkClear(t) ==
    /\ Running
    /\ threads[t].pc = "clear"
    /\ heap' = ClearFetchFn([heap |-> heap], threads[t].cur).heap
    /\ threads' = [threads EXCEPT ![t].pc = "after"]
    /\ last' = [last EXCEPT !.op = "clear", !.t = t]
    /\ UNCHANGED <<calls, handles, hist, gfs>>

\* the thread after child, found := cur.children[part]
WalkLooked(th, h, child) ==
    IF child = NilNode THEN [th EXCEPT !.pc = "done", !.err = ErrNotExist(th.parts[th.i])]
    ELSE IF IsFile(h, child)
    THEN IF IsLastPart(th.i, th.parts) THEN [th EXCEPT !.pc = "done", !.ret = child]
         ELSE [th EXCEPT !.pc = "done", !.err = ErrNotExist(th.parts[th.i])]
    ELSE [th EXCEPT !.pc = "test", !.cur = child, !.i = th.i + 1]

\* find after cur.fetch(): the lookup of the next part, or the return of cur
WalkLookup(t) ==
    /\ Running
    /\ threads[t].pc = "after"
    /\ LET th == threads[t]
       IN IF th.i > Len(th.parts)
          THEN /\ threads' = [threads EXCEPT ![t].pc = "done", ![t].ret = th.cur]
               /\ last' = [last EXCEPT !.op = "return", !.t = t]
          ELSE /\ threads' = [threads EXCEPT ![t] =
                    WalkLooked(th, heap,
                               IF th.parts[th.i] \in DOMAIN heap[th.cur].children
                               THEN heap[th.cur].children[th.parts[th.i]] ELSE NilNode)]
               /\ last' = [last EXCEPT !.op = "lookup", !.t = t,
                              !.log = Append(last.log, WalkEvent(t, "lookup", th.cur, FALSE))]
    /\ UNCHANGED <<heap, calls, handles, hist, gfs>>

\* thread t reads the children of a directory while the capability that
\* thread u runs writes them: the runtime can end the process (fatal error:
\* concurrent map read and map write)
WalkMapRace(t, u) ==
    /\ Running
    /\ t # u
    /\ threads[t].pc = "after" /\ threads[t].i <= Len(threads[t].parts)
    /\ threads[u].pc = "invoking"
    /\ threads[t].cur = threads[u].cur
    /\ last' = [last EXCEPT !.op = "fatal", !.t = t, !.panic = TRUE]
    /\ UNCHANGED <<heap, calls, handles, hist, threads, gfs>>

NextConcurrentFind ==
    \/ \E name \in Names, opts \in WalkOptSets : NoWalker /\ NewDir(Root, name, opts)
    \/ \E t \in Threads, path \in WalkPaths : WalkCall(t, path)
    \/ \E t \in Threads : WalkTest(t)
    \/ \E t \in Threads, reload \in BOOLEAN : WalkBegin(t, reload)
    \/ \E t \in Threads : WalkEnd(t)
    \/ \E t \in Threads : WalkClear(t)
    \/ \E t \in Threads : WalkLookup(t)
    \/ \E t \in Threads, u \in Threads : WalkMapRace(t, u)

SpecConcurrentFind == Init /\ [][NextConcurrentFind]_vars

---------------------------------------------------------------------------
(* Entries of a directory handle and opens of the files they stand for:    *)
(* files and directories are put under the root, the root is listed, the   *)
(* entries are read and the files are opened, which may download them.     *)

\* per listing: the stat info of every child when the handle was created, in
\* the order of the entries, and the positions of the entries that ReadDir
\* has returned
NoListing == [made |-> <<>>, returned |-> {}]

\* what the files are created with: content, a url, a url and an advisory size
ListedFileOpts ==
    {<<[opt |-> "withContent", val |-> <<1>>]>>,
     <<[opt |-> "withUrl", val |-> <<"u", "full">>]>>,
     <<[opt |-> "withUrl", val |-> <<"u", "full">>], [opt |-> "withSize", val |-> 3]>>,
     <<[opt |-> "withUrl", val |-> <<"u", "full">>], [opt |-> "withSize", val |-> 2]>>,
     <<[opt |-> "withUrl", val |-> <<"u", "empty">>], [opt |-> "withSize", val |-> 1]>>}

\* root.addFile(name, opts...) while no handle has been opened
ListedAddFile(name, opts) ==
    /\ Running
    /\ handles = <<>>
    /\ name \notin DOMAIN heap[Root].children
    /\ Cardinality(DOMAIN heap[Root].children) < MaxEntries
    /\ heap' = addFile(heap, Root, name, opts).heap
    /\ last' = [NoLast EXCEPT !.op = "addFile", !.file = Len(heap) + 1, !.opts = opts]
    /\ UNCHANGED <<calls, handles, hist, threads, gfs>>

\* root.newDir(name) while no handle has been opened
ListedNewDir(name) ==
    /\ Running
    /\ handles = <<>>
    /\ name \notin DOMAIN heap[Root].children
    /\ Cardinality(DOMAIN heap[Root].children) < MaxEntries
    /\ heap' = newDir(heap, Root, name, <<>>).heap
    /\ last' = [NoLast EXCEPT !.op = "newDir", !.dir = Len(heap) + 1]
    /\ UNCHANGED <<calls, handles, hist, threads, gfs>>

\* root.newDirHandle() returned dh
ListedOpened(dh) ==
    /\ handles' = <<dh>>
    /\ hist' = <<[NoListing EXCEPT
                     !.made = [i \in 1..Len(dh.entries) |-> EntryInfo(heap, dh.entries[i])]]>>
    /\ last' = [NoLast EXCEPT !.op = "newDirHandle", !.dir = Root, !.h = 1]
    /\ UNCHANGED <<heap, calls, threads, gfs>>

\* root.newDirHandle(), once
ListedOpen(order) ==
    /\ Running
    /\ handles = <<>>
    /\ ListedOpened(newDirHandle(heap, Root, order))

\* ReadDir(n) on the handle returned r
ListedReturned(r, n) ==
    /\ handles' = <<r.dh>>
    /\ hist' = <<[hist[1] EXCEPT !.returned =
                     @ \cup ((handles[1].index + 1)..(handles[1].index + Len(r.batch)))]>>
    /\ last' = [NoLast EXCEPT !.op = "ReadDir", !.h = 1, !.n = n, !.batch = r.batch,
                   !.isNil = r.isNil, !.err = r.err, !.pre = handles[1]]
    /\ UNCHANGED <<heap, calls, threads, gfs>>

ListedReadDir(n) ==
    /\ Running
    /\ handles # <<>>
    /\ ListedReturned(ReadDir(handles[1], n), n)

\* f.newFileHandle() returned r
ListedFileOpened(r, f, outcome) ==
    /\ heap' = r.heap
    /\ last' = [NoLast EXCEPT !.op = "newFileHandle", !.file = f, !.isNil = r.isNil,
                   !.err = r.err, !.got = r.got, !.outcome = outcome,
                   !.preNode = heap[f], !.info = r.fh.info]
    /\ UNCHANGED <<calls, handles, hist, threads, gfs>>

\* f.newFileHandle() on a file of the root while the remote answers with
\* outcome
ListedOpenFile(f, outcome) ==
    /\ Running
    /\ IsFile(heap, f)
    /\ ListedFileOpened(file_newFileHandle(heap, f, outcome), f, outcome)

NextEntryInfo ==
    \/ \E name \in Names, opts \in ListedFileOpts : ListedAddFile(name, opts)
    \/ \E name \in Names : ListedNewDir(name)
    \/ \E order \in Orders(DOMAIN heap[Root].children) : ListedOpen(order)
    \/ \E n \in {0, 1} : ListedReadDir(n)
    \/ \E f \in 2..Len(heap), outcome \in {"ok", "status"} : ListedOpenFile(f, outcome)

SpecEntryInfo == Init /\ [][NextEntryInfo]_vars

---------------------------------------------------------------------------
(* Concurrent opens of one file: a file is put under the root and two      *)
(* threads call newFileHandle on it; the method locks f.m on entry and     *)
(* unlocks it on return, and the statements in between are steps.          *)

\* the calls of newFileHandle in a run
MaxFileOpens == 3

\* a thread in newFileHandle: the statement it is at and what it returns
NoOpenCall == [pc |-> "idle", fh |-> NoFileHandle, isNil |-> TRUE, err |-> NoErr]

\* the thread is between f.m.Lock() and the deferred f.m.Unlock()
HoldsFileMutex(th) == th.pc \in {"check", "get", "return"}

\* fault: a lock that lets every thread in
FileMutexFreeAlways(t) == TRUE

\* f.m.Lock() returns once no other thread holds the mutex
FileMutexFree(t) == \A u \in Threads \ {t} : ~HoldsFileMutex(threads[u])

\* the file that is opened
OpenedFile == 2

\* thread t calls f.newFileHandle()
OpenCall(t) ==
    /\ Running
    /\ Len(heap) = OpenedFile
    /\ threads[t].pc = "idle"
    /\ last.n < MaxFileOpens
    /\ threads' = [threads EXCEPT ![t] = [NoOpenCall EXCEPT !.pc = "lock"]]
    /\ last' = [last EXCEPT !.op = "call", !.t = t, !.n = @ + 1]
    /\ UNCHANGED <<heap, calls, handles, hist, gfs>>

\* f.m.Lock()
OpenLock(t) ==
    /\ Running
    /\ threads[t].pc = "lock"
    /\ FileMutexFree(t)
    /\ threads' = [threads EXCEPT ![t].pc = "check"]
    /\ last' = [last EXCEPT !.op = "lock", !.t = t]
    /\ UNCHANGED <<heap, calls, handles, hist, gfs>>

\* if int64(len(f.content)) != f.info.size; the handle when they are equal
OpenCheck(t) ==
    /\ Running
    /\ threads[t].pc = "check"
    /\ threads' = [threads EXCEPT ![t] =
                      IF Len(heap[OpenedFile].content) # heap[OpenedFile].size
                      THEN [@ EXCEPT !.pc = "get"]
                      ELSE [@ EXCEPT !.pc = "return", !.isNil = FALSE,
                                     !.fh = Opened(heap, OpenedFile, FALSE).fh]]
    /\ last' = [last EXCEPT !.op = "check", !.t = t]
    /\ UNCHANGED <<heap, calls, handles, hist, gfs>>

\* the download by thread t returned r
OpenDownloaded(r, t, outcome) ==
    /\ heap' = r.heap
    /\ threads' = [threads EXCEPT ![t] = [@ EXCEPT !.pc = "return", !.isNil = r.isNil,
                                                   !.fh = r.fh, !.err = r.err]]
    /\ last' = [last EXCEPT !.op = "get", !.t = t,
                   !.log = Append(@, [op |-> "get", t |-> t, done |-> ~r.isNil,
                                      content |-> <<>>])]
    /\ UNCHANGED <<calls, handles, hist, gfs>>

\* the request to the remote and what follows it up to the return
OpenGet(t, outcome) ==
    /\ Running
    /\ threads[t].pc = "get"
    /\ OpenDownloaded(Download(heap, OpenedFile, outcome), t, outcome)

\* the method returns and the deferred f.m.Unlock() runs
OpenReturn(t) ==
    /\ Running
    /\ threads[t].pc = "return"
    /\ threads' = [threads EXCEPT ![t] = NoOpenCall]
    /\ last' = [last EXCEPT !.op = "return", !.t = t,
                   !.log = Append(@, [op |-> "return", t |-> t,
                                      done |-> ~threads[t].isNil,
                                      content |-> threads[t].fh.content.buf])]
    /\ UNCHANGED <<heap, calls, handles, hist, gfs>>

NextConcurrentOpen ==
    \/ \E opts \in ListedFileOpts : CreateFile(opts)
    \/ \E t \in Threads : OpenCall(t)
    \/ \E t \in Threads : OpenLock(t)
    \/ \E t \in Threads : OpenCheck(t)
    \/ \E t \in Threads, outcome \in {"ok", "status"} : OpenGet(t, outcome)
    \/ \E t \in Threads : OpenReturn(t)

SpecConcurrentOpen == Init /\ [][NextConcurrentOpen]_vars

---------------------------------------------------------------------------
(* Concurrent Close: handles of the root and of its file are handed out    *)
(* and two threads call Close on them; Close locks the mutex of the handle *)
(* on entry and unlocks it on return, and the statements in between are    *)
(* steps.                                                                  *)

\* the handles of a run and the calls of Close on them
MaxCloseHandles == 2
MaxCloseCalls == 3

\* a thread in Close: the statement it is at, the handle, what it returns and
\* whether another call on the handle was under way during the call
NoCloseCall == [pc |-> "idle", h |-> 0, err |-> NoErr, overlap |-> FALSE]

\* a dirHandle, as opposed to a fileHandle
IsDirHandle(hd) == "entries" \in DOMAIN hd

\* d.newDirHandle() on the root
HandDir(order) ==
    /\ Running
    /\ Len(handles) < MaxCloseHandles
    /\ handles' = Append(handles, newDirHandle(heap, Root, order))
    /\ last' = [last EXCEPT !.op = "newDirHandle", !.dir = Root, !.h = Len(handles) + 1]
    /\ UNCHANGED <<heap, calls, hist, threads, gfs>>

\* f.newFileHandle() on the file of the root returned r with a handle
FileHanded(r) ==
    /\ ~r.isNil
    /\ heap' = r.heap
    /\ handles' = Append(handles, r.fh)
    /\ last' = [last EXCEPT !.op = "newFileHandle", !.file = OpenedFile,
                   !.h = Len(handles) + 1]
    /\ UNCHANGED <<calls, hist, threads, gfs>>

HandFile(outcome) ==
    /\ Running
    /\ Len(heap) = OpenedFile
    /\ Len(handles) < MaxCloseHandles
    /\ FileHanded(file_newFileHandle(heap, OpenedFile, outcome))

\* the thread is between m.Lock() and the deferred m.Unlock() of handle h
HoldsCloseMutex(th, h) == th.pc \in {"check", "mark", "return"} /\ th.h = h

\* fault: a lock that lets every thread in
CloseMutexFreeAlways(t) == TRUE

\* d.m.Lock() and f.m.Lock() return once no other thread holds the mutex of
\* the handle
CloseMutexFree(t) == \A u \in Threads \ {t} : ~HoldsCloseMutex(threads[u], threads[t].h)

\* the thread is in Close on handle h
InClose(th, h) == th.pc # "idle" /\ th.h = h

\* thread t calls Close on handle h
CloseCall(t, h) ==
    /\ Running
    /\ threads[t].pc = "idle"
    /\ last.n < MaxCloseCalls
    /\ threads' = [u \in Threads |->
                      IF u = t
                      THEN [NoCloseCall EXCEPT !.pc = "lock", !.h = h,
                               !.overlap = \E v \in Threads \ {t} : InClose(threads[v], h)]
                      ELSE IF InClose(threads[u], h) THEN [threads[u] EXCEPT !.overlap = TRUE]
                      ELSE threads[u]]
    /\ last' = [last EXCEPT !.op = "call", !.t = t, !.h = h, !.n = @ + 1]
    /\ UNCHANGED <<heap, calls, handles, hist, gfs>>

\* m.Lock()
CloseLock(t) ==
    /\ Running
    /\ threads[t].pc = "lock"
    /\ CloseMutexFree(t)
    /\ threads' = [threads EXCEPT ![t].pc = "check"]
    /\ last' = [last EXCEPT !.op = "lock", !.t = t]
    /\ UNCHANGED <<heap, calls, handles, hist, gfs>>

\* what Close returns on a closed handle
closedError(hd) == IF IsDirHandle(hd) THEN Close(hd).err ELSE fileHandleClose(hd).err

\* if d.closed { return fmt.Errorf("stat %s %w", ...) } and
\* if f.closed { return fmt.Errorf("close %s %w", ...) }
CloseCheck(t) ==
    /\ Running
    /\ threads[t].pc = "check"
    /\ threads' = [threads EXCEPT ![t] =
                      IF handles[threads[t].h].closed
                      THEN [@ EXCEPT !.pc = "return",
                                     !.err = closedError(handles[threads[t].h])]
                      ELSE [@ EXCEPT !.pc = "mark"]]
    /\ last' = [last EXCEPT !.op = "check", !.t = t]
    /\ UNCHANGED <<heap, calls, handles, hist, gfs>>

\* d.closed = true, and f.closed = true; f.content = nil
closeMarked(hd) ==
    IF IsDirHandle(hd) THEN [hd EXCEPT !.closed = TRUE]
    ELSE [hd EXCEPT !.closed = TRUE, !.content = NoBuffer]

\* the assignments of Close and its return nil
CloseMark(t) ==
    /\ Running
    /\ threads[t].pc = "mark"
    /\ handles' = [handles EXCEPT ![threads[t].h] = closeMarked(@)]
    /\ threads' = [threads EXCEPT ![t].pc = "return"]
    /\ last' = [last EXCEPT !.op = "mark", !.t = t]
    /\ UNCHANGED <<heap, calls, hist, gfs>>

\* Close returns and the deferred m.Unlock() runs
CloseReturn(t) ==
    /\ Running
    /\ threads[t].pc = "return"
    /\ threads' = [threads EXCEPT ![t] = NoCloseCall]
    /\ last' = [last EXCEPT !.op = "return", !.t = t,
                   !.log = Append(@, [t |-> t, h |-> threads[t].h, err |-> threads[t].err,
                                      overlap |-> threads[t].overlap])]
    /\ UNCHANGED <<heap, calls, handles, hist, gfs>>

\* no Close has been called yet
Handing == last.n = 0

NextConcurrentClose ==
    \/ \E opts \in ListedFileOpts : handles = <<>> /\ CreateFile(opts)
    \/ \E order \in Orders(DOMAIN heap[Root].children) : Handing /\ HandDir(order)
    \/ \E outcome \in GetOutcomes : Handing /\ HandFile(outcome)
    \/ \E t \in Threads, h \in DOMAIN handles : CloseCall(t, h)
    \/ \E t \in Threads : CloseLock(t)
    \/ \E t \in Threads : CloseCheck(t)
    \/ \E t \in Threads : CloseMark(t)
    \/ \E t \in Threads : CloseReturn(t)

SpecConcurrentClose == Init /\ [][NextConcurrentClose]_vars

---------------------------------------------------------------------------
(* Lazy fetch protocol and path resolver: properties of Spec *)

\* the last operation was a walk that returned
Walked == last.op = "find" /\ ~last.panic

\* the positions of the fetch calls in the log of the last walk
FetchEvents == {j \in DOMAIN last.log : last.log[j].ev = "fetch"}

\* the node that the first i segments of parts lead to from the root in heap h,
\* NilNode when a segment names no child or leads through a file
RECURSIVE ChildAt(_, _, _)
ChildAt(h, parts, i) ==
    IF i = 0 THEN Root
    ELSE LET p == ChildAt(h, parts, i - 1)
         IN IF IsDir(h, p) /\ parts[i] \in DOMAIN h[p].children
            THEN h[p].children[parts[i]]
            ELSE NilNode

\* every non-final segment names a directory child and the final one a file child
FileCase(h, parts) ==
    /\ \A i \in 1..(Len(parts) - 1) : IsDir(h, ChildAt(h, parts, i))
    /\ IsFile(h, ChildAt(h, parts, Len(parts)))

\* every segment names a directory child
DirCase(h, parts) == \A i \in 1..Len(parts) : IsDir(h, ChildAt(h, parts, i))

\* C1 (one-shot fetch): a capability returns nil at most once per directory and
\* is gone once it has; in a walk, fetch on a directory that existed before the
\* walk invokes the capability exactly when the directory still carried one, a
\* successful invocation is the directory's first and leaves it without
\* capability, and a fetch that finds no capability invokes nothing.
C1_OneShotFetch ==
    /\ \A d \in Dirs(heap) :
          /\ CallsOf(calls, d).ok <= 1
          /\ CallsOf(calls, d).ok = 1 => heap[d].fetchFn = "none"
    /\ Walked => \A j \in FetchEvents :
          LET e == last.log[j]
          IN /\ e.d <= last.preLen => (e.inv <=> e.d \in last.hadFn)
             /\ e.inv /\ e.ok => /\ CallsOf(last.preCalls, e.d).ok = 0
                                 /\ CallsOf(calls, e.d).ok = 1
                                 /\ heap[e.d].fetchFn = "none"
             /\ ~e.inv => CallsOf(calls, e.d) = CallsOf(last.preCalls, e.d)

\* a walk fetched a directory whose capability had succeeded in an earlier walk
C1_Witness ==
    /\ Walked
    /\ \E j \in FetchEvents :
          /\ ~last.log[j].inv
          /\ CallsOf(last.preCalls, last.log[j].d).ok = 1
          /\ CallsOf(calls, last.log[j].d).ok = 1

\* C2 (retry after failure): whenever the capability of a directory returns an
\* error during a walk, the walk returns that error wrapped and the directory
\* still carries its capability, for the listing and the bulk import alike.
C2_RetryAfterFailure ==
    Walked => \A j \in FetchEvents :
        ~last.log[j].ok =>
            /\ last.err = WrapFetchErr(last.log[j].cause)
            /\ heap[last.log[j].d].fetchFn # "none"

\* C3 (resolver result): when every fetch of the walk succeeded, find(path)
\* returns the containing directory and the file exactly in the file case, the
\* directory alone exactly in the directory case, and fails with NotExist in
\* every other case.
C3_ResolverResult ==
    (Walked /\ \A j \in FetchEvents : last.log[j].ok) =>
        LET k == Len(last.path)
            fc == FileCase(heap, last.path)
            dc == DirCase(heap, last.path)
        IN /\ fc <=> (last.err = NoErr /\ last.file # NilNode)
           /\ fc => /\ last.file = ChildAt(heap, last.path, k)
                    /\ last.dir = ChildAt(heap, last.path, k - 1)
           /\ dc <=> (last.err = NoErr /\ last.file = NilNode)
           /\ dc => last.dir = ChildAt(heap, last.path, k)
           /\ (~fc /\ ~dc) <=> ErrorIs(last.err, "ErrNotExist")
           /\ last.err # NoErr => last.dir = NilNode /\ last.file = NilNode

\* a walk of two segments returned a file after invoking a capability
C3_Witness ==
    /\ Walked
    /\ Len(last.path) = 2
    /\ last.file # NilNode
    /\ \E j \in FetchEvents : last.log[j].inv /\ last.log[j].ok

\* C4 (fetch scope and order): the walk itself calls fetch first on the root,
\* every child lookup directly follows a successful fetch of the directory
\* looked into, the fetch calls are on the nodes that the segments of the path
\* lead to, one after the other, a directory found by a lookup is fetched
\* next, and a directory is returned only after its own fetch.
C4_FetchScopeAndOrder ==
    Walked =>
        LET L == last.log
        IN /\ Len(L) >= 1
           /\ L[1].ev = "fetch" /\ L[1].d = Root
           /\ \A j \in DOMAIN L :
                 /\ L[j].ev = "lookup" =>
                       /\ j > 1
                       /\ L[j - 1].ev = "fetch" /\ L[j - 1].d = L[j].d /\ L[j - 1].ok
                 /\ L[j].ev = "fetch" => L[j].d = ChildAt(heap, last.path, (j - 1) \div 2)
                 /\ (L[j].ev = "lookup" /\ L[j].ok
                        /\ IsDir(heap, heap[L[j].d].children[L[j].part])) =>
                       /\ j < Len(L)
                       /\ L[j + 1].ev = "fetch"
                       /\ L[j + 1].d = heap[L[j].d].children[L[j].part]
           /\ (last.err = NoErr /\ last.file = NilNode) =>
                 /\ L[Len(L)].ev = "fetch" /\ L[Len(L)].ok
                 /\ L[Len(L)].d = last.dir

\* a walk descended two levels, invoked a capability and returned a directory
C4_Witness ==
    /\ Walked
    /\ last.err = NoErr /\ last.file = NilNode
    /\ Len(last.log) >= 5
    /\ \E j \in FetchEvents : last.log[j].inv

\* C5 (abort on fetch failure): a failed fetch is the last step of the walk;
\* find returns neither directory nor file but the capability's error wrapped,
\* and the capability of no directory other than the ones fetched up to there
\* has been invoked.
C5_AbortOnFetchFailure ==
    Walked => \A j \in FetchEvents :
        ~last.log[j].ok =>
            /\ j = Len(last.log)
            /\ last.dir = NilNode /\ last.file = NilNode
            /\ last.log[j].cause # NoErr
            /\ last.err = WrapFetchErr(last.log[j].cause)
            /\ \A d \in 1..Len(heap) :
                  (\A i \in 1..j : last.log[i].d # d) =>
                      CallsOf(calls, d) = CallsOf(last.preCalls, d)

\* the fetch of a directory below the root failed while a directory below it
\* carried a capability
C5_Witness ==
    /\ Walked
    /\ \E j \in FetchEvents :
          /\ ~last.log[j].ok
          /\ j >= 3
          /\ \E d \in Dirs(heap) :
                /\ heap[d].parent = last.log[j].d
                /\ heap[d].fetchFn # "none"
                /\ heap[last.log[j].d].children[last.path[Len(last.path)]] = d

---------------------------------------------------------------------------
(* Directory handle: properties of SpecDirHandle and SpecSnapshot *)

\* the last operation was a ReadDir on a handle that was open
ReadOpen == last.op = "ReadDir" /\ ~last.pre.closed

\* C6 (unbounded ReadDir): on an open handle ReadDir(n <= 0) returns the
\* entries from the cursor to the end without error, also when none remain,
\* and leaves the cursor at the end; once it has been called, every later
\* ReadDir on the handle returns no entries.
C6_UnboundedReadDir ==
    ReadOpen =>
        /\ last.n <= 0 =>
              /\ last.err = NoErr
              /\ last.batch = SubSeq(last.pre.entries, last.pre.index + 1,
                                     Len(last.pre.entries))
              /\ handles[last.h].index = Len(last.pre.entries)
        /\ last.preHist.drained => last.batch = <<>>

\* C7 (bounded ReadDir): on an open handle with r entries after the cursor,
\* ReadDir(n > 0) returns the next min(n, r) entries in the order of the
\* handle and advances the cursor by as many; the error is nil when r >= n
\* and io.EOF, together with the short batch, when r < n.
C7_BoundedReadDir ==
    (ReadOpen /\ last.n > 0) =>
        LET r == Len(last.pre.entries) - last.pre.index
            c == IF last.n < r THEN last.n ELSE r
        IN /\ last.batch = SubSeq(last.pre.entries, last.pre.index + 1, last.pre.index + c)
           /\ handles[last.h].index = last.pre.index + c
           /\ handles[last.h].entries = last.pre.entries
           /\ r >= last.n => last.err = NoErr
           /\ r < last.n => last.err = <<"EOF">>

\* a bounded read returned a short batch that is not empty together with io.EOF
C7_Witness ==
    /\ ReadOpen /\ last.n > 0
    /\ last.err = <<"EOF">>
    /\ Len(last.batch) > 0
    /\ last.pre.index > 0

\* what a single unbounded ReadDir returns on handle dh read from the start
UnboundedRead(dh) == ReadDir([dh EXCEPT !.index = 0, !.closed = FALSE], 0 - 1).batch

\* C8 as stated: once the counts of the bounded reads of a handle sum to more
\* than the number of its entries, the batches concatenated are what an
\* unbounded ReadDir returns on any new handle of the same directory, and the
\* end-of-sequence signal has been returned.
C8_FreshHandleLaw ==
    \A h \in DOMAIN handles :
        (hist[h].bounded /\ ~hist[h].mutated /\ hist[h].sum > Len(handles[h].entries)) =>
            /\ hist[h].eof
            /\ \A order \in Orders(DOMAIN heap[hist[h].dir].children) :
                  hist[h].got = UnboundedRead(newDirHandle(heap, hist[h].dir, order))

\* C8 (concatenation law), amended: the batches of the bounded reads of a
\* handle concatenated are the first entries of the handle's own sequence, as
\* many as the counts sum to; once the counts sum to more than the number of
\* entries they are what an unbounded ReadDir returns on a handle with the
\* same sequence, and the end-of-sequence signal is returned by the call with
\* which the sum exceeds the number of entries and by no earlier call.
C8_ConcatenationLaw ==
    \A h \in DOMAIN handles :
        hist[h].bounded =>
            LET k == Len(handles[h].entries)
                m == IF hist[h].sum < k THEN hist[h].sum ELSE k
            IN /\ hist[h].got = SubSeq(handles[h].entries, 1, m)
               /\ hist[h].sum > k => hist[h].got = UnboundedRead(handles[h])
               /\ hist[h].eof <=> hist[h].sum > k

\* three bounded reads of a directory with two entries, the last one
\* returning the end-of-sequence signal with an empty batch
C8_Witness ==
    \E h \in DOMAIN handles :
        /\ hist[h].bounded /\ hist[h].eof
        /\ Len(handles[h].entries) >= 2
        /\ hist[h].sum = Len(handles[h].entries) + 1
        /\ last.op = "ReadDir" /\ last.n = 1 /\ last.batch = <<>>

\* the names of the children of directory d
ChildNames(h, d) == {h[h[d].children[k]].name : k \in DOMAIN h[d].children}

\* C9 (handle snapshot): the names of the entries of a handle, in their
\* order, are the names of the children that the directory had when the
\* handle was created, whatever has been added, replaced or aliased since,
\* and a ReadDir returns the part of that sequence after the cursor.
C9_HandleSnapshot ==
    \A h \in DOMAIN handles :
        /\ EntryNames(heap, handles[h].entries) = hist[h].snap
        /\ (ReadOpen /\ last.h = h) =>
              EntryNames(heap, last.batch) =
                  SubSeq(hist[h].snap, last.pre.index + 1, last.pre.index + Len(last.batch))

\* a handle returned entries after the children of its directory had changed
C9_Witness ==
    \E h \in DOMAIN handles :
        /\ hist[h].mutated
        /\ ReadOpen /\ last.h = h /\ Len(last.batch) > 0
        /\ ChildNames(heap, hist[h].dir) # {hist[h].snap[i] : i \in DOMAIN hist[h].snap}
        /\ \E k \in DOMAIN heap[hist[h].dir].children :
              \A i \in DOMAIN handles[h].entries :
                  handles[h].entries[i].ref # heap[hist[h].dir].children[k]

\* C10 (closed handle): Close on an open handle succeeds and closes it; on a
\* closed handle Stat, Read, ReadDir and Close fail with ErrClosed, Stat and
\* ReadDir return nil, Read returns 0, and the handle, its cursor included,
\* stays as it was.
C10_ClosedHandle ==
    last.op \in {"Stat", "Read", "ReadDir", "Close"} =>
        /\ (last.op = "Close" /\ ~last.pre.closed) =>
              last.err = NoErr /\ handles[last.h].closed
        /\ last.pre.closed =>
              /\ ErrorIs(last.err, "ErrClosed")
              /\ handles[last.h] = last.pre
              /\ last.op \in {"Stat", "ReadDir"} =>
                    last.isNil /\ last.batch = <<>> /\ last.info = NoInfo
              /\ last.op = "Read" => last.bytes = 0

\* ReadDir was called on a handle closed with entries left after its cursor
C10_Witness ==
    /\ last.op = "ReadDir" /\ last.pre.closed
    /\ last.pre.index > 0
    /\ last.pre.index < Len(last.pre.entries)
    /\ last.n > 0

---------------------------------------------------------------------------
(* File handles: properties of SpecFileHandle *)

\* the last operation was a Stat, Read or Close on a file handle
FileHandleOp == last.op \in {"Stat", "Read", "Close"}

\* C11: the first Close of a file handle succeeds and drops the buffered
\* content; on a closed handle Stat, Read and Close fail with Closed, Stat
\* returns no info, Read returns no byte, and the handle stays as it was,
\* whether or not unread content remained when it was closed
C11_ClosedFileHandle ==
    /\ (last.op = "Close" /\ ~last.pre.closed) =>
           /\ last.err = NoErr
           /\ handles[last.h].closed
           /\ handles[last.h].content = NoBuffer
    /\ (FileHandleOp /\ last.pre.closed) =>
           /\ ErrorIs(last.err, "ErrClosed")
           /\ handles[last.h] = last.pre
           /\ last.op = "Stat" => last.isNil /\ last.info = NoInfo
           /\ last.op = "Read" => last.bytes = 0 /\ last.batch = <<>>

\* a Read with a buffer on a handle that was closed while content was unread
C11_Witness ==
    /\ last.op = "Read" /\ last.pre.closed /\ last.n > 0
    /\ Len(last.preHist.got) < Len(last.preHist.content)
    /\ ErrorIs(last.err, "ErrClosed")

\* the last operation was an open of a file that had a url
OpenedRemote == last.op = "newFileHandle" /\ last.preNode.url # <<>>

\* the handle in the slot of the last open holds all of content, unread
Delivers(content) ==
    /\ handles[last.h].content = NewBuffer(content)
    /\ handles[last.h].info.size = Len(content)

\* C12: an open of a file that has a url and no content bytes, whatever its
\* advisory size (0 and unset included), or whose content length differs from
\* its recorded size, asks the remote, and the handle it returns holds the
\* full remote content
C12_FetchOnOpen ==
    (/\ OpenedRemote
     /\ \/ Len(last.preNode.content) = 0
        \/ Len(last.preNode.content) # last.preNode.size)
    => /\ last.got
       /\ ~last.isNil => Delivers(RemoteContent(last.preNode.url))

\* the last operation was an open during which the remote was asked and the
\* download failed
DownloadFailed ==
    /\ last.op = "newFileHandle" /\ last.got
    /\ last.outcome # "ok" \/ last.preNode.url = <<>>

\* C13: when the download fails (no answer, a status other than 200, a body
\* that cannot be read) the open returns no handle and an error, the file's
\* content and size are as before, and an open after it asks the remote again
C13_FailedContentFetch ==
    DownloadFailed =>
        /\ last.isNil /\ last.err # NoErr
        /\ heap[last.file] = last.preNode
        /\ handles = last.preHandles
        /\ \A o \in GetOutcomes : file_newFileHandle(heap, last.file, o).got

\* a download has failed for a file with a url and an advisory size
C13_Witness ==
    /\ DownloadFailed /\ last.preNode.url # <<>>
    /\ last.outcome \in {"transport", "status", "body"}
    /\ last.isNil /\ last.preNode.size > 0

\* s is an initial part of t
IsPrefix(s, t) == Len(s) <= Len(t) /\ s = SubSeq(t, 1, Len(s))

\* two handles that were opened on the same file
SameFile(h1, h2) == h1 # h2 /\ hist[h1].file = hist[h2].file

\* C14: two handles opened one after the other on the same file each deliver,
\* however their Reads interleave, the complete content of the file, the same
\* bytes for both, which are the bytes the file was created with or the bytes
\* of the remote; a Read or Close on one handle leaves the cursor and the
\* remaining bytes of the other as they were
C14_IndependentOpens ==
    \A h1 \in DOMAIN handles, h2 \in DOMAIN handles :
        SameFile(h1, h2) =>
            /\ hist[h1].source = hist[h2].source
            /\ IsPrefix(hist[h1].got, hist[h1].source)
            /\ hist[h1].eof => hist[h1].got = hist[h1].source
            /\ (FileHandleOp /\ last.h = h1) => handles[h2] = last.preHandles[h2]

\* the last operation was a Read on an open file handle
ReadOpenFile == last.op = "Read" /\ ~last.pre.closed

\* the content of the handle of the last operation had been returned in full
\* before the operation
Consumed == last.preHist.got = last.preHist.content

\* the bytes that the Reads of every handle have returned are an initial part
\* of the content, all of it once the end of file has been signalled, and a
\* Read returns no more bytes than its buffer holds
ReadStream ==
    /\ \A h \in DOMAIN handles :
           /\ IsPrefix(hist[h].got, hist[h].content)
           /\ hist[h].eof => hist[h].got = hist[h].content
    /\ ReadOpenFile => last.bytes <= last.n /\ last.bytes = Len(last.batch)

\* C15: the bytes returned by the successive Reads of an open handle are the
\* content in order; each Read returns at most len(buf) bytes, and no error
\* while content remains; once the content is consumed every further Read
\* with a non-empty buffer returns 0 bytes with io.EOF, for an empty file
\* already the first one (a Read with an empty buffer returns 0 bytes and no
\* error)
C15_ReadStream ==
    /\ ReadStream
    /\ (ReadOpenFile /\ ~Consumed) => last.err = NoErr
    /\ (ReadOpenFile /\ Consumed) =>
           /\ last.bytes = 0
           /\ last.err = IF last.n > 0 THEN <<"EOF">> ELSE NoErr

\* a file of two bytes has been read to its end and is read once more with a
\* buffer of one byte
C15_Witness ==
    /\ ReadOpenFile /\ Consumed /\ last.n = 1
    /\ last.preHist.content = <<1, 2>>
    /\ last.err = <<"EOF">>

---------------------------------------------------------------------------
(* mkdir: properties of SpecMkdir *)

\* the node that parts leads to from d through the children, if any
RECURSIVE Walk(_, _, _)
Walk(h, d, parts) ==
    IF parts = <<>> THEN d
    ELSE IF IsDir(h, d) /\ Head(parts) \in DOMAIN h[d].children
    THEN Walk(h, h[d].children[Head(parts)], Tail(parts))
    ELSE NilNode

\* how many of the first parts lead to a node from d
Existing(h, d, parts) ==
    CHOOSE k \in 0..Len(parts) :
        /\ Walk(h, d, SubSeq(parts, 1, k)) # NilNode
        /\ k < Len(parts) => Walk(h, d, SubSeq(parts, 1, k + 1)) = NilNode

\* the last operation was a makeDirs in one piece that returned
MadeDirs == last.op = "makeDirs" /\ ~last.panic

\* the directory that newDir creates for name under parent, its children aside
Created(h, parent, name, opts) ==
    ApplyDirOpts(DirNode(name, parent, Append(h[parent].path, name), h[parent].org,
                         h[parent].repo, h[parent].branch), opts)

\* a node without the array its path is stored in
Sliceless(node) == [node EXCEPT !.pathArr = 0, !.pathCap = 0]

\* a node without the path it records
Pathless(node) == [Sliceless(node) EXCEPT !.path = <<>>]

SameCall(t, u) ==
    /\ t # u
    /\ threads[t].pc = "done" /\ threads[u].pc = "done"
    /\ threads[t].from = threads[u].from
    /\ threads[t].path = threads[u].path

\* C17: when two threads call makeDirs with the same parts on the same
\* directory at the same time, the process goes on, both get the same leaf,
\* that leaf is the node the parts lead to afterwards, and no part has been
\* created twice
C17_ConcurrentMkdir ==
    /\ last.op # "fatal"
    /\ \A t \in Threads, u \in Threads :
           SameCall(t, u) =>
               /\ threads[t].ret = threads[u].ret
               /\ threads[t].ret = Walk(heap, threads[t].from, threads[t].path)
               /\ \A n \in threads[t].made, m \in threads[u].made :
                      heap[n].parent # heap[m].parent \/ heap[n].name # heap[m].name

---------------------------------------------------------------------------
(* newFile: properties of SpecFileHandle *)

\* the options of the given kind in the list of the last newFile
OptsOf(kind) == SelectSeq(last.opts, LAMBDA o : o.opt = kind)

\* C18: a file created with one content option and one size option, in either
\* order, for any size and any content, the empty content included, records
\* the length of the content as its size; with a size option alone it records
\* that size, with a content option alone the length of the content
C18_ContentDerivedSize ==
    (last.op = "addFile" /\ Len(OptsOf("withContent")) <= 1 /\ Len(OptsOf("withSize")) <= 1)
    => LET f == heap[last.file]
       IN /\ Len(OptsOf("withContent")) = 1 =>
                 f.content = OptsOf("withContent")[1].val /\ f.size = Len(f.content)
          /\ (OptsOf("withContent") = <<>> /\ Len(OptsOf("withSize")) = 1) =>
                 f.content = <<>> /\ f.size = OptsOf("withSize")[1].val

---------------------------------------------------------------------------
(* Tarball import: properties of SpecTarball *)

\* the path of an entry without its leading component and without a final "/"
Stripped(name) ==
    Tail(IF name[Len(name)] = "" THEN SubSeq(name, 1, Len(name) - 1) ELSE name)

\* the paths that can lead to a node: up to three names
TreePaths ==
    {<<x>> : x \in Names} \cup {<<x, y>> : x \in Names, y \in Names}
        \cup {<<x, y, z>> : x \in Names, y \in Names, z \in Names}

\* the last operation was an import of regular files and directories that
\* returned without error
ImportedPlain ==
    /\ last.op = "tarballToTree" /\ ~last.panic /\ last.err = NoErr
    /\ \A i \in DOMAIN last.archive : last.archive[i].type \in {"reg", "dir"}

\* the path of entry i leads from the import directory to a file with the
\* content of the entry, or to a directory for a directory entry
EntryResolves(i) ==
    LET e == last.archive[i]
        n == Walk(heap, last.dir, Stripped(e.name))
    IN IF e.type = "reg" THEN IsFile(heap, n) /\ heap[n].content = e.content
       ELSE IsDir(heap, n)

\* every path that leads somewhere from the import directory did so before
\* the import or is the path of an entry or an initial part of one
NothingElse ==
    \A path \in TreePaths :
        Walk(heap, last.dir, path) # NilNode =>
            \/ Walk(last.preHeap, last.dir, path) # NilNode
            \/ \E i \in DOMAIN last.archive : IsPrefix(path, Stripped(last.archive[i].name))

\* C19 as stated: after a successful import of an archive of regular files
\* and directories, every entry's stripped path resolves under the import
\* directory, to a file with the entry's content or to a directory, and no
\* other path has become resolvable
C19_EveryEntryResolves ==
    ImportedPlain => (\A i \in DOMAIN last.archive : EntryResolves(i)) /\ NothingElse

\* no regular file of the archive has the path of another entry or of an
\* ancestor of another entry
FilesAreLeaves(archive) ==
    \A i \in DOMAIN archive, j \in DOMAIN archive :
        (i # j /\ archive[i].type = "reg") =>
            ~IsPrefix(Stripped(archive[i].name), Stripped(archive[j].name))

\* C19 amended: the same for the archives in which no regular file has the
\* path of another entry or of an ancestor of one; in any archive the entry
\* read last for a path is the one that resolves
C19_TarballImport ==
    ImportedPlain =>
        /\ NothingElse
        /\ FilesAreLeaves(last.archive) => \A i \in DOMAIN last.archive : EntryResolves(i)
        /\ EntryResolves(Len(last.archive))

\* an import of three entries, with a directory entry and a file two levels
\* down whose directory did not exist before
C19_Witness ==
    /\ ImportedPlain /\ FilesAreLeaves(last.archive) /\ Len(last.archive) = 3
    /\ \E i \in DOMAIN last.archive : last.archive[i].type = "dir"
    /\ \E i \in DOMAIN last.archive :
           /\ last.archive[i] = Reg(<<"t", "b", "a">>, <<2>>)
           /\ Walk(last.preHeap, last.dir, <<"b">>) = NilNode
           /\ EntryResolves(i)

\* the last operation was an import that returned without error
ImportedAll == last.op = "tarballToTree" /\ ~last.panic /\ last.err = NoErr

\* the path of link entry e below the import directory
LinkPath(e) == Stripped(e.name)

\* the path of the target of link entry e below the import directory: the
\* linkname taken from the directory of the link
TargetPath(e) ==
    LET p == filepathClean(SubSeq(LinkPath(e), 1, Len(LinkPath(e)) - 1) \o e.linkname)
    IN IF p = <<".">> THEN <<>> ELSE p

\* the path of link entry i leads to the node that its target path leads to
Aliased(i) ==
    LET e == last.archive[i]
    IN /\ Walk(heap, last.dir, LinkPath(e)) # NilNode
       /\ Walk(heap, last.dir, LinkPath(e)) = Walk(heap, last.dir, TargetPath(e))

Links(archive) == {i \in DOMAIN archive : archive[i].type = "link"}

\* C20 as stated: after a successful import the path of every link entry
\* resolves to the very same node, file or directory, as its target path
\* taken from the link's own directory
C20_EveryLinkAliased ==
    ImportedAll => \A i \in Links(last.archive) : Aliased(i)

\* no regular file and no link of the archive has the path of another entry
\* or of an ancestor of another entry
LinksAreLeaves(archive) ==
    \A i \in DOMAIN archive, j \in DOMAIN archive :
        (i # j /\ archive[i].type # "dir") =>
            ~IsPrefix(Stripped(archive[i].name), Stripped(archive[j].name))

\* the import directory had no children before the import
ImportedIntoEmpty == DOMAIN last.preHeap[last.dir].children = {}

\* C20 amended: after a successful import into a directory that was empty, of
\* an archive in which no regular file and no link has the path of another
\* entry or of an ancestor of one, the path of every link entry resolves to
\* the very same node, file or directory, as its target path taken from the
\* link's own directory
C20_LinkAliasing ==
    (ImportedAll /\ ImportedIntoEmpty /\ LinksAreLeaves(last.archive))
    => \A i \in Links(last.archive) : Aliased(i)

\* an import with a link in a subdirectory whose target is a file one level up
C20_Witness ==
    /\ ImportedAll /\ ImportedIntoEmpty /\ LinksAreLeaves(last.archive)
    /\ \E i \in Links(last.archive) :
           /\ last.archive[i].linkname = <<"..", "a">>
           /\ Aliased(i)
           /\ IsFile(heap, Walk(heap, last.dir, <<"a">>))

---------------------------------------------------------------------------
(* Tarball import: links whose target does not resolve *)

\* the import of the entries before entry i of the last archive
ImportedBefore(i) ==
    tarballToTree([heap |-> last.preHeap, calls |-> calls, panic |-> FALSE], last.dir,
                  SubSeq(last.archive, 1, i - 1),
                  [failAt |-> NilNode, archive |-> last.archive, importing |-> <<>>])

\* the path from the root of the target of link entry e of an import into d:
\* the linkname taken from the directory of the link, "." and ".." resolved
AbsTarget(h, d, e) ==
    CleanStack(NamesToRoot(h, d) \o SubSeq(LinkPath(e), 1, Len(LinkPath(e)) - 1)
                   \o e.linkname, <<>>, FALSE)

\* no node of heap h is at the target of link entry e
Unresolvable(h, d, e) ==
    LET p == AbsTarget(h, d, e)
    IN \/ \E k \in DOMAIN p : p[k] = ".."
       \/ ChildAt(h, p, Len(p)) = NilNode

\* the entries before link entry i were imported, which returned r, and the
\* target of entry i does not resolve in the tree they left
TargetMissing(r, i) ==
    /\ ~r.st.panic /\ r.err = NoErr
    /\ Unresolvable(r.st.heap, last.dir, last.archive[i])

\* C21 (unresolvable link): when an import reaches a link entry whose target
\* does not resolve in the tree at that time, tarballToTree returns an error
\* that is NotExist.
C21_UnresolvableLink ==
    last.op = "tarballToTree" =>
        \A i \in Links(last.archive) :
            TargetMissing(ImportedBefore(i), i) =>
                ~last.panic /\ ErrorIs(last.err, "ErrNotExist")

\* an import below the root failed at a link that follows an imported file and
\* whose target is missing
C21_Witness ==
    /\ last.op = "tarballToTree" /\ last.dir # Root
    /\ ErrorIs(last.err, "ErrNotExist")
    /\ \E i \in Links(last.archive) :
           /\ i >= 2
           /\ last.archive[1].type = "reg"
           /\ TargetMissing(ImportedBefore(i), i)

---------------------------------------------------------------------------
(* Per-directory listing: properties of SpecListing *)

KnownModes == {ghModeFile, ghModeExecutable, ghModeDirectory, ghModeSubmodule, ghModeSymlink}

\* the position of the first entry whose mode is none of the known ones, one
\* past the end when there is none
FirstUnknown(entries) ==
    IF \A i \in DOMAIN entries : entries[i].mode \in KnownModes THEN Len(entries) + 1
    ELSE CHOOSE i \in DOMAIN entries :
             /\ entries[i].mode \notin KnownModes
             /\ \A j \in 1..(i - 1) : entries[j].mode \in KnownModes

\* the child of d named name in heap h, NilNode when there is none
ChildOf(h, d, name) ==
    IF name \in DOMAIN h[d].children THEN h[d].children[name] ELSE NilNode

\* the last operation was a listing
ListedDir == last.op = "listing"

\* entry e of the last listing has become a new file of the listed directory
\* with mode bits mode
YieldsFile(e, mode) ==
    LET n == ChildOf(heap, last.dir, e.name)
    IN /\ IsFile(heap, n) /\ n > Len(last.preHeap)
       /\ heap[n].name = e.name /\ heap[n].mode = mode
       /\ heap[n].url # <<>> /\ heap[n].url[Len(heap[n].url)] = e.name

\* entry e of the last listing has become a new directory of the listed
\* directory that carries the listing capability
YieldsDir(e) ==
    LET n == ChildOf(heap, last.dir, e.name)
    IN /\ IsDir(heap, n) /\ n > Len(last.preHeap)
       /\ heap[n].name = e.name /\ heap[n].parent = last.dir
       /\ heap[n].fetchFn = "list" /\ heap[n].children = NoChildren

\* the last listing has left the child named name as it was: none or the one
\* that was there before
YieldsNothing(name) ==
    ChildOf(heap, last.dir, name) = ChildOf(last.preHeap, last.dir, name)

\* C22 (mode mapping): a listing returns nil exactly when every entry has a
\* known mode and fails with an error otherwise; of the entries up to the
\* first unknown mode a regular file yields a File with mode 0644, an
\* executable a File with mode 0755, a directory a child Directory with the
\* listing capability, and a submodule or a symlink yields no child.
C22_ModeMapping ==
    ListedDir =>
        LET E == last.batch
            k == FirstUnknown(E)
        IN /\ k > Len(E) <=> last.err = NoErr
           /\ k <= Len(E) => last.err = <<"unknown file mode">>
           /\ \A i \in 1..(k - 1) :
                 /\ E[i].mode = ghModeFile => YieldsFile(E[i], "0644")
                 /\ E[i].mode = ghModeExecutable => YieldsFile(E[i], "0755")
                 /\ E[i].mode = ghModeDirectory => YieldsDir(E[i])
                 /\ E[i].mode \in {ghModeSubmodule, ghModeSymlink} => YieldsNothing(E[i].name)
           /\ Len(heap) = Len(last.preHeap)
                 + Cardinality({i \in 1..(k - 1) : E[i].mode \in {ghModeFile, ghModeExecutable,
                                                                 ghModeDirectory}})

\* a listing of an executable and a directory succeeded in a directory below
\* the root
C22_Witness ==
    /\ ListedDir /\ last.err = NoErr /\ last.dir # Root
    /\ \E i \in DOMAIN last.batch :
           last.batch[i].mode = ghModeExecutable /\ YieldsFile(last.batch[i], "0755")
    /\ \E i \in DOMAIN last.batch :
           last.batch[i].mode = ghModeDirectory /\ YieldsDir(last.batch[i])

\* a listing failed at an entry of unknown mode that follows a submodule
C22_UnknownModeWitness ==
    /\ ListedDir /\ last.err # NoErr
    /\ Len(last.batch) = 2 /\ last.batch[1].mode = ghModeSubmodule

---------------------------------------------------------------------------
(* The FS object: properties of SpecOpen and SpecReleases *)

\* C23: Open with a malformed name (a leading or trailing slash, an empty
\* element, a "." or ".." element other than the root token) fails with
\* ErrInvalid before anything is asked of the remote: the call issues no
\* request, and the tree, the connected flag and the fetched marks are as
\* before.
C23_InvalidPathFirst ==
    [][(last'.op = "open" /\ ~ValidPath(last'.path))
        => /\ last'.err = <<"open", last'.path, "ErrInvalid">>
           /\ last'.log = <<>>
           /\ heap' = heap
           /\ gfs' = gfs
           /\ handles' = handles]_vars

\* a malformed name was opened on a filesystem that has yet to connect, and a
\* well-formed one made it connect
C23_Witness ==
    /\ last.op = "open"
    /\ last.path = <<"o", "">>
    /\ last.err = <<"open", last.path, "ErrInvalid">>
    /\ ~gfs.connected
    /\ gfs.inputs # <<>>

\* the node at org/repo/git, if the tree has one
GitDirOf(h, org, repo) ==
    IF org \in DOMAIN h[Root].children
       /\ repo \in DOMAIN h[h[Root].children[org]].children
       /\ dirNameGit \in DOMAIN h[h[h[Root].children[org]].children[repo]].children
    THEN h[h[h[Root].children[org]].children[repo]].children[dirNameGit]
    ELSE NilNode

\* the repositories an input asks for: the one it names, or all of the owner
AsksFor(s, rep) == IF s.repo = "" THEN TRUE ELSE s.repo = rep.name

\* archived repositories are allowed for a repository asked for by name, and
\* for an owner when the option says so
ArchivedAllowed(s) == s.repo # "" \/ s.allowArchived

\* some input asks for the repository and the remote reports it as one to show
Visible(rep) ==
    \E i \in DOMAIN gfs.inputs :
        /\ AsksFor(gfs.inputs[i], rep)
        /\ ~rep.isDisabled
        /\ rep.nameWithOwner = <<gfs.inputs[i].org, rep.name>>
        /\ (rep.isArchived => ArchivedAllowed(gfs.inputs[i]))

\* an input names a repository the remote does not have
NamesUnknown ==
    \E i \in DOMAIN gfs.inputs :
        /\ gfs.inputs[i].repo # ""
        /\ \A j \in DOMAIN gfs.gqlClient.repos : gfs.gqlClient.repos[j].name # gfs.inputs[i].repo

ConnectFailed == last.op = "open" /\ Len(last.err) >= 3 /\ last.err[3] = "error connecting"

\* C27: once connect has succeeded, org/repo/git is in the tree exactly for
\* the repositories that an input asks for and that the remote reports as not
\* disabled, under the requested org/name, and not archived unless the input
\* allows archived repositories (an input naming a repository always does, an
\* input for a whole owner only if told so). An excluded repository does not
\* resolve (Open fails with ErrNotExist), and connect fails only for a request
\* the remote refuses or a named repository it does not have, never for a
\* repository it skips.
C27_RepositoryVisibility ==
    /\ gfs.connected =>
        \A j \in DOMAIN gfs.gqlClient.repos :
            LET rep == gfs.gqlClient.repos[j]
            IN /\ (GitDirOf(heap, "o", rep.name) # NilNode) <=> Visible(rep)
               /\ (last.op = "open" /\ last.path = <<"o", rep.name, dirNameGit>> /\ ~last.panic)
                    => IF Visible(rep) THEN last.err = NoErr /\ last.dir = GitDirOf(heap, "o", rep.name)
                       ELSE last.err # NoErr /\ last.err[Len(last.err)] = "ErrNotExist"
    /\ ConnectFailed => (last.failAt \in 1..Len(last.log) \/ NamesUnknown)
    /\ (last.op = "open" /\ ValidPath(last.path) /\ ~ConnectFailed) => gfs.connected

\* the owner was asked for without archived repositories, repository r is
\* archived, connect succeeded and org/r/git did not resolve
C27_Witness ==
    /\ gfs.connected
    /\ gfs.inputs = <<WithFullOrg("o", FALSE)>>
    /\ gfs.gqlClient.repos[1].isArchived
    /\ ~gfs.gqlClient.repos[1].isDisabled
    /\ gfs.gqlClient.repos[1].nameWithOwner = <<"o", "r">>
    /\ last.op = "open"
    /\ last.path = <<"o", "r", dirNameGit>>
    /\ last.err # NoErr

\* an archived repository asked for by name is shown although the owner's
\* listing skipped it
C27_ByNameWitness ==
    /\ gfs.connected
    /\ gfs.inputs = <<WithFullOrg("o", FALSE), WithRepo("o", "r")>>
    /\ gfs.gqlClient.repos[1].isArchived
    /\ GitDirOf(heap, "o", "r") # NilNode
    /\ last.path = <<"o", "r", dirNameGit>>
    /\ last.err = NoErr

\* C29: the name "." resolves to the root itself. Open(".") on a filesystem
\* that has connected returns a handle on the root whose entries are the
\* root's children, one entry per child; the root needs no child called "."
\* for it, and none is looked up.
C29_RootToken ==
    (last.op = "open" /\ last.path = <<".">> /\ ~ConnectFailed /\ ~last.panic)
        => /\ gfs.connected
           /\ last.err = NoErr
           /\ last.dir = Root
           /\ "." \notin DOMAIN heap[Root].children
           /\ Len(handles) = 1
           /\ handles[1].info.name = "."
           /\ Len(handles[1].entries) = Cardinality(DOMAIN heap[Root].children)
           /\ {EntryName(heap, handles[1].entries[i]) : i \in DOMAIN handles[1].entries}
                = DOMAIN heap[Root].children

\* "." was opened on a connected filesystem whose root has a child
C29_Witness ==
    /\ last.op = "open"
    /\ last.path = <<".">>
    /\ gfs.connected
    /\ last.dir = Root
    /\ Len(handles) = 1
    /\ Len(handles[1].entries) = 1
    /\ EntryName(heap, handles[1].entries[1]) = "o"

\* the node at org/repo/releases, if the tree has one
ReleasesDirOf(h, org, repo) ==
    IF org \in DOMAIN h[Root].children
       /\ repo \in DOMAIN h[h[Root].children[org]].children
       /\ dirNameReleases \in DOMAIN h[h[h[Root].children[org]].children[repo]].children
    THEN h[h[h[Root].children[org]].children[repo]].children[dirNameReleases]
    ELSE NilNode

RECURSIVE Flatten(_)
Flatten(pages) == IF pages = <<>> THEN <<>> ELSE Head(pages) \o Flatten(Tail(pages))

\* the releases the remote has, over all pages
RemoteReleases == Flatten(gfs.gqlClient.releases)

\* the last call asked for the releases and no request of it was refused
ReleasesFetched ==
    /\ last.op = "open"
    /\ \E i \in DOMAIN last.log : last.log[i][1] = "releases"
    /\ last.failAt \notin 1..Len(last.log)
    /\ ReleasesDirOf(heap, "o", "r") # NilNode

\* a release is listed exactly when it is neither a draft nor a prerelease
ListedReleases(rels) ==
    \A i \in DOMAIN RemoteReleases :
        (RemoteReleases[i].tag \in DOMAIN heap[rels].children)
            <=> ~(RemoteReleases[i].isDraft \/ RemoteReleases[i].isPrerelease)

\* the directory of a release has a file per asset with its name, size and url
HasAssets(relDir, rel) ==
    \A j \in DOMAIN rel.assets :
        /\ rel.assets[j].name \in DOMAIN heap[relDir].children
        /\ LET a == heap[heap[relDir].children[rel.assets[j].name]]
           IN /\ a.kind = "file"
              /\ a.name = rel.assets[j].name
              /\ a.size = rel.assets[j].size
              /\ a.url = rel.assets[j].downloadUrl

\* the directory of a release has description.md holding the description
HasDescription(relDir, rel) ==
    /\ descriptionName \in DOMAIN heap[relDir].children
    /\ LET f == heap[heap[relDir].children[descriptionName]]
       IN /\ f.kind = "file"
          /\ f.content = rel.description
          /\ f.size = Len(rel.description)

Shown(rel) == ~(rel.isDraft \/ rel.isPrerelease)

\* C28: once the releases of a repository are fetched, a release is a child
\* directory named by its tag exactly when it is neither a draft nor a
\* prerelease, whatever page it is on, and each such directory holds
\* description.md with the description of the release and a file per asset
\* with the name, size and download url of the asset.
C28_ReleaseVisibility ==
    ReleasesFetched =>
        /\ ListedReleases(ReleasesDirOf(heap, "o", "r"))
        /\ \A i \in DOMAIN RemoteReleases :
            Shown(RemoteReleases[i]) =>
                /\ IsDir(heap, heap[ReleasesDirOf(heap, "o", "r")].children[RemoteReleases[i].tag])
                /\ HasAssets(heap[ReleasesDirOf(heap, "o", "r")].children[RemoteReleases[i].tag],
                             RemoteReleases[i])
                /\ HasDescription(heap[ReleasesDirOf(heap, "o", "r")].children[RemoteReleases[i].tag],
                                  RemoteReleases[i])

\* no asset of the release is called like the description
KeepsDescription(rel) == \A j \in DOMAIN rel.assets : rel.assets[j].name # descriptionName

\* what holds of every fetch: the listing and the assets always, the
\* description unless an asset of the release has taken its name
C28_ExceptShadowed ==
    ReleasesFetched =>
        /\ ListedReleases(ReleasesDirOf(heap, "o", "r"))
        /\ \A i \in DOMAIN RemoteReleases :
            Shown(RemoteReleases[i]) =>
                /\ HasAssets(heap[ReleasesDirOf(heap, "o", "r")].children[RemoteReleases[i].tag],
                             RemoteReleases[i])
                /\ KeepsDescription(RemoteReleases[i]) =>
                     HasDescription(heap[ReleasesDirOf(heap, "o", "r")].children[RemoteReleases[i].tag],
                                    RemoteReleases[i])

\* releases on two pages were fetched, a prerelease on the first and a
\* release with an asset on the second
C28_PagedWitness ==
    /\ ReleasesFetched
    /\ Len(gfs.gqlClient.releases) = 2
    /\ RemoteReleases[1].isPrerelease
    /\ "v1" \notin DOMAIN heap[ReleasesDirOf(heap, "o", "r")].children
    /\ "v2" \in DOMAIN heap[ReleasesDirOf(heap, "o", "r")].children

---------------------------------------------------------------------------
(* Concurrent calls on one directory handle: properties of SpecConcurrentHandle *)

\* the calls that have returned, in the order of their return
HandleLog == IF last.op \in {"call", "lock", "check", "loop", "inc", "return"} THEN last.log ELSE <<>>

\* what the method returns when it runs alone on handle dh
Alone(c, dh) ==
    IF c.op = "ReadDir"
    THEN [batch |-> ReadDir(dh, c.n).batch, err |-> ReadDir(dh, c.n).err, info |-> NoInfo,
          post |-> ReadDir(dh, c.n).dh]
    ELSE IF c.op = "Stat"
    THEN [batch |-> <<>>, err |-> Stat(dh).err, info |-> Stat(dh).info, post |-> dh]
    ELSE [batch |-> <<>>, err |-> Close(dh).err, info |-> NoInfo, post |-> Close(dh).dh]

\* the batches of the calls of ReadDir, one after the other
RECURSIVE Batches(_)
Batches(log) ==
    IF log = <<>> THEN <<>>
    ELSE (IF Head(log).op = "ReadDir" THEN Head(log).batch ELSE <<>>) \o Batches(Tail(log))

\* C24: when several threads call ReadDir(n > 0), Stat and Close on one handle
\* at the same time, the calls take effect one after the other: each returns
\* what it returns when run alone on the handle the call before it left, so
\* no entry of the snapshot is returned by two calls, the batches in the
\* order of the cursor are a prefix of the snapshot with none skipped, and a
\* ReadDir that comes after a successful Close returns no entry.
C24_HandleCallsAtomic ==
    /\ \A i \in DOMAIN HandleLog :
        /\ HandleLog[i].pre = IF i = 1 THEN [HandleLog[1].pre EXCEPT !.index = 0, !.closed = FALSE]
                              ELSE HandleLog[i - 1].post
        /\ HandleLog[i].batch = Alone(HandleLog[i], HandleLog[i].pre).batch
        /\ HandleLog[i].err = Alone(HandleLog[i], HandleLog[i].pre).err
        /\ HandleLog[i].info = Alone(HandleLog[i], HandleLog[i].pre).info
        /\ HandleLog[i].post = Alone(HandleLog[i], HandleLog[i].pre).post
    /\ HandleLog # <<>> =>
        Batches(HandleLog) = SubSeq(handles[1].entries, 1, Len(Batches(HandleLog)))
    /\ \A i, j \in DOMAIN HandleLog :
        (i < j /\ HandleLog[i].op = "Close" /\ HandleLog[i].err = NoErr /\ HandleLog[j].op = "ReadDir")
            => HandleLog[j].batch = <<>> /\ ErrorIs(HandleLog[j].err, "ErrClosed")

\* two threads called ReadDir(1) at the same time on a handle of two entries
\* and each returned one of them
C24_Witness ==
    /\ Len(HandleLog) = 2
    /\ Len(handles[1].entries) = 2
    /\ HandleLog[1].op = "ReadDir" /\ HandleLog[1].t = 1 /\ Len(HandleLog[1].batch) = 1
    /\ HandleLog[2].op = "ReadDir" /\ HandleLog[2].t = 2 /\ Len(HandleLog[2].batch) = 1
    /\ HandleLog[2].pre.index = 1

\* a thread closed the handle while the other waited in ReadDir, which then
\* returned no entry
C24_ClosedWitness ==
    /\ Len(HandleLog) = 2
    /\ HandleLog[1].op = "Close" /\ HandleLog[1].err = NoErr
    /\ HandleLog[2].op = "ReadDir" /\ HandleLog[2].batch = <<>>
    /\ Len(handles[1].entries) = 2

\* a thread waits for the mutex that the other one holds inside ReadDir
C24_ContendedWitness ==
    /\ handles # <<>>
    /\ threads[1].pc = "inc"
    /\ threads[2].pc = "lock"
    /\ threads[2].op = "ReadDir"

---------------------------------------------------------------------------
(* Recorded paths: properties of SpecPath *)

\* the names on the chain from below the nearest transparent ancestor of n
\* (or the root) down to n
RECURSIVE ChainPath(_, _, _)
ChainPath(h, n, transparent) ==
    IF n = Root \/ n \in transparent THEN <<>>
    ELSE Append(ChainPath(h, h[n].parent, transparent), h[n].name)

\* C25: after any calls of newDir and makeDirs the path recorded on a
\* directory is the names of the directories on its chain below its nearest
\* path-transparent ancestor, ending with its own name, and empty for a
\* transparent directory; so making a sibling or any other directory leaves
\* the path of every other directory as it was, at every depth.
C25_RecordedPath ==
    \A n \in Dirs(heap) : heap[n].path = ChainPath(heap, n, last.transparent)

\* a directory at depth four whose recorded path ends with the name of the
\* sibling made after it
C25_OverwrittenWitness ==
    /\ Len(heap) = 6
    /\ heap[5].name = "a" /\ heap[6].name = "b"
    /\ heap[5].parent = heap[6].parent
    /\ heap[5].path = <<"a", "b", "a", "b">>

---------------------------------------------------------------------------
(* Concurrent walks: properties of SpecConcurrentFind *)

\* what the walks have done to the capabilities and the children, in order
WalkLog == IF last.op \in {"init", "newDir"} THEN <<>> ELSE last.log

Begins(d) == {i \in DOMAIN WalkLog : WalkLog[i].ev = "begin" /\ WalkLog[i].d = d}
Ends(d) == {i \in DOMAIN WalkLog : WalkLog[i].ev = "end" /\ WalkLog[i].d = d}

\* C26: when two threads resolve paths through a directory D whose capability
\* succeeds, the accesses to D's capability and children are serialized: the
\* capability is invoked once, no thread calls a capability that another
\* thread has cleared, and no thread looks up D's children before the
\* invocation has completed.
C26_SharedDirectorySerialized ==
    /\ ~last.panic
    /\ \A d \in Dirs(heap) : Cardinality(Begins(d)) <= 1
    /\ \A i \in DOMAIN WalkLog : WalkLog[i].ev = "begin" => ~WalkLog[i].cleared
    /\ \A i \in DOMAIN WalkLog :
        (WalkLog[i].ev = "lookup" /\ \E j \in Begins(WalkLog[i].d) : j < i)
            => \E k \in Ends(WalkLog[i].d) : k < i

\* both threads invoked the capability of the same directory
C26_TwiceWitness ==
    \E d \in Dirs(heap) : Cardinality(Begins(d)) = 2 /\ ~last.panic

\* a thread called the capability after the other thread had cleared it
C26_NilCallWitness == last.op = "nil call" /\ last.panic

---------------------------------------------------------------------------
(* Tarball import: the capability of the directory imported into *)

\* the successful invocations of d's capability in the last walk
InvokedInWalk(d) == CallsOf(calls, d).ok - CallsOf(last.preCalls, d).ok

\* C30: tarballToTree on directory D takes D's capability away before it
\* handles the first entry, so the walks that resolve the links and their
\* targets through D during the import do not invoke it: no invocation of
\* D's capability begins while an import into D is in progress, and a walk
\* invokes the capability of a directory at most once.
C30_NoReentrantImport ==
    /\ \A d \in DOMAIN calls : ~calls[d].nested
    /\ last.op = "find" => \A d \in DOMAIN calls : InvokedInWalk(d) <= 1

\* a walk invoked the bulk import of a directory and the import resolved a
\* link through that directory: the link and its target are the same file
C30_Witness ==
    /\ last.op = "find"
    /\ ~last.panic
    /\ \E d \in Dirs(heap) :
        /\ d \in last.hadFn
        /\ InvokedInWalk(d) = 1
        /\ heap[d].fetchFn = "none"
        /\ {"a", "b"} \subseteq DOMAIN heap[d].children
        /\ heap[d].children["a"] = heap[d].children["b"]
        /\ IsFile(heap, heap[d].children["b"])

---------------------------------------------------------------------------
(* Tarball import: an import that fails *)

\* the last operation was an import that returned an error
ImportFailed == last.op = "tarballToTree" /\ ~last.panic /\ last.err # NoErr

\* the import of the entries up to entry i of the last archive
ImportedUpTo(i) ==
    tarballToTree([heap |-> last.preHeap, calls |-> calls, panic |-> FALSE], last.dir,
                  SubSeq(last.archive, 1, i),
                  [failAt |-> NilNode, archive |-> last.archive, importing |-> <<>>])

\* entry i of the last archive is where the import failed: the entries before
\* it were imported without error, which returned r; it is an entry that
\* cannot be read or a link; the import up to it returned f, with the error
\* and the tree of the whole import; a damaged header or a link has left the
\* tree as it was
FailedAt(r, f, i) ==
    /\ ~r.st.panic /\ r.err = NoErr
    /\ last.archive[i].type \in {"err", "trunc", "link"}
    /\ f.err = last.err /\ heap = f.st.heap
    /\ last.archive[i].type \in {"err", "link"} => heap = r.st.heap

\* every path that led to a node of h from d leads to the same node now
StaysResolvable(h, d) ==
    \A path \in TreePaths :
        Walk(h, d, path) # NilNode => Walk(heap, d, path) = Walk(h, d, path)

\* C31 (no rollback): when tarballToTree returns an error it failed at one
\* entry, a read error or a link that does not resolve; no entry after it has
\* been handled, and every directory, file and alias that the entries before
\* it created is in the tree and resolves as it did when the entry was read.
C31_NoRollback ==
    ImportFailed =>
        \E i \in DOMAIN last.archive :
            /\ FailedAt(ImportedBefore(i), ImportedUpTo(i), i)
            /\ StaysResolvable(ImportedBefore(i).st.heap, last.dir)

\* an import of three entries failed at the second, a read error: the file of
\* the first entry is new and resolves, the directory of the third is not there
C31_Witness ==
    /\ ImportFailed /\ Len(last.archive) = 3
    /\ last.archive[1] = Reg(<<"t", "b", "a">>, <<2>>)
    /\ last.archive[2].type = "err"
    /\ last.archive[3] = DirEntry(<<"t", "">>) \/ last.archive[3] = Reg(<<"t", "a">>, <<1>>)
    /\ Walk(last.preHeap, last.dir, <<"b">>) = NilNode
    /\ IsFile(heap, Walk(heap, last.dir, <<"b", "a">>))
    /\ Walk(heap, last.dir, <<"a">>) = NilNode

\* an import failed at its second entry, a link whose target is missing: the
\* file of the first entry is new and resolves, the file of the third entry,
\* which would have been the target, is not there
C31_LinkWitness ==
    /\ ImportFailed /\ ErrorIs(last.err, "ErrNotExist")
    /\ last.archive = <<Reg(<<"t", "b", "a">>, <<2>>), Link(<<"t", "b">>, <<"a">>),
                        Reg(<<"t", "a">>, <<1>>)>>
    /\ Walk(last.preHeap, last.dir, <<"b">>) = NilNode
    /\ IsFile(heap, Walk(heap, last.dir, <<"b", "a">>))
    /\ Walk(heap, last.dir, <<"a">>) = NilNode

\* an import failed at its second entry, a file whose content cannot be read:
\* the directory made for it is in the tree without the file, the file of the
\* first entry resolves and the third entry has made nothing
C31_TruncatedWitness ==
    /\ ImportFailed
    /\ last.archive = <<Reg(<<"t", "a">>, <<1>>), Truncated(<<"t", "b", "a">>),
                        Link(<<"t", "b", "b">>, <<"..", "a">>)>>
    /\ DOMAIN last.preHeap[last.dir].children = {}
    /\ IsFile(heap, Walk(heap, last.dir, <<"a">>))
    /\ IsDir(heap, Walk(heap, last.dir, <<"b">>))
    /\ DOMAIN heap[Walk(heap, last.dir, <<"b">>)].children = {}

---------------------------------------------------------------------------
(* The FS object: repository discovery *)

\* a request of repository discovery: a page of an owner or one repository
IsDiscovery(req) == req[1] \in {"repositories", "repository"}

\* the requests of a whole discovery for one input against remote w
InputRequests(s, w) ==
    IF s.repo = ""
    THEN [k \in 1..Len(Pages(w.repos, w.pageSize)) |-> <<"repositories", s.org, k - 1>>]
    ELSE <<<<"repository", s.org, s.repo>>>>

RECURSIVE AllRequests(_, _, _)
\* the requests for the inputs that are for whole owners (wide) or not, in
\* the order of the inputs
AllRequests(inputs, w, wide) ==
    IF inputs = <<>> THEN <<>>
    ELSE (IF (Head(inputs).repo = "") = wide THEN InputRequests(Head(inputs), w) ELSE <<>>)
             \o AllRequests(Tail(inputs), w, wide)

\* the requests of a whole discovery: every input for a whole owner comes
\* before every input for one repository
Discovery(g) ==
    AllRequests(g.inputs, g.gqlClient, TRUE) \o AllRequests(g.inputs, g.gqlClient, FALSE)

\* the call failed in connect
ConnectError(err) == Len(err) >= 3 /\ err[3] = "error connecting"

\* the first n requests of log, all of them when it has fewer
Prefix(log, n) == SubSeq(log, 1, IF n < Len(log) THEN n ELSE Len(log))

\* C32 (connect once): a valid Open on a filesystem that is not connected
\* runs discovery from the first input, the inputs for whole owners before
\* the inputs for one repository; when every request is answered the
\* filesystem is connected, and when one is refused Open fails with a
\* connection error right there and the filesystem stays unconnected, so that
\* the next Open starts over; a valid Open on a connected filesystem issues
\* no request of discovery and leaves it connected.
C32_ConnectOnce ==
    [][(last'.op = "open" /\ ValidPath(last'.path))
        => /\ gfs.connected
               => /\ gfs'.connected
                  /\ \A i \in DOMAIN last'.log : ~IsDiscovery(last'.log[i])
                  /\ ~ConnectError(last'.err)
           /\ ~gfs.connected
               => /\ Prefix(last'.log, Len(Discovery(gfs)))
                         = Prefix(Discovery(gfs), Len(last'.log))
                  /\ \A i \in DOMAIN last'.log :
                         i > Len(Discovery(gfs)) => ~IsDiscovery(last'.log[i])
                  /\ gfs'.connected <=> ~ConnectError(last'.err)
                  /\ gfs'.connected => Len(last'.log) >= Len(Discovery(gfs))
                  /\ last'.failAt \in 1..Len(Discovery(gfs))
                         => ConnectError(last'.err) /\ Len(last'.log) <= last'.failAt
                  /\ ConnectError(last'.err) => Len(last'.log) <= Len(Discovery(gfs))]_vars

\* the second Open of a run found the filesystem connected: it fetched a
\* directory from the remote and asked nothing about repositories
C32_Witness ==
    /\ last.op = "open" /\ last.n = 2 /\ ValidPath(last.path)
    /\ gfs.connected /\ last.err = NoErr
    /\ last.log # <<>>
    /\ \A i \in DOMAIN last.log : ~IsDiscovery(last.log[i])
    /\ Len(Discovery(gfs)) >= 2

\* the first Open failed at the second request of discovery, after the first
\* input had put a repository into the tree; the second Open ran the whole
\* discovery, the single repository behind the owner, and connected
C32_RetryWitness ==
    /\ last.op = "open" /\ last.n = 2 /\ ValidPath(last.path)
    /\ gfs.connected
    /\ gfs.inputs = <<WithRepo("o", "s"), WithFullOrg("o", FALSE)>>
    /\ Len(last.preHeap) > 1
    /\ Len(Discovery(gfs)) >= 2
    /\ Len(last.log) >= Len(Discovery(gfs))
    /\ SubSeq(last.log, 1, Len(Discovery(gfs))) = Discovery(gfs)
    /\ last.log[1][1] = "repositories"
    /\ last.log[Len(Discovery(gfs))] = <<"repository", "o", "s">>

---------------------------------------------------------------------------
(* addFile: effect and frame *)

\* C33 (addFile): a call of addFile(name, opts...) on directory d makes one
\* new node, the File that newFile builds from d, the name and the options;
\* it is the node returned and d's child under the name, whatever was there
\* before; every other child of d is as before, and so are d's capability
\* and metadata and every other node.
C33_AddFileFrame ==
    [][last'.op = "addFile"
        => LET f == last'.file
               d == heap'[f].parent
               name == heap'[f].name
           IN /\ Len(heap') = Len(heap) + 1
              /\ f = Len(heap')
              /\ d \in Dirs(heap)
              /\ \E opts \in FileOptSets : heap'[f] = newFile(heap, d, name, opts)
              /\ DOMAIN heap'[d].children = DOMAIN heap[d].children \cup {name}
              /\ heap'[d].children[name] = f
              /\ \A x \in DOMAIN heap[d].children :
                     x # name => heap'[d].children[x] = heap[d].children[x]
              /\ [heap'[d] EXCEPT !.children = NoChildren]
                     = [heap[d] EXCEPT !.children = NoChildren]
              /\ \A m \in 1..Len(heap) : m # d => heap'[m] = heap[m]]_vars

\* addFile has put a file where a directory was: the directory that was
\* replaced is no longer a child
C33_Witness ==
    /\ last.op = "addFile"
    /\ LET f == last.file
           d == heap[f].parent
       IN /\ heap[d].children[heap[f].name] = f
          /\ \E m \in Dirs(heap) :
                 /\ m # f /\ heap[m].parent = d /\ heap[m].name = heap[f].name
                 /\ \A x \in DOMAIN heap[d].children : heap[d].children[x] # m

\* addFile has put a file where a file was
C33_FileWitness ==
    /\ last.op = "addFile"
    /\ \E m \in 1..Len(heap) :
           /\ IsFile(heap, m) /\ m # last.file
           /\ heap[m].parent = heap[last.file].parent
           /\ heap[m].name = heap[last.file].name

\* addFile has put a file beside another child
C33_SiblingWitness ==
    /\ last.op = "addFile"
    /\ Cardinality(DOMAIN heap[heap[last.file].parent].children) = 2

\* addFile has put a file into a directory that has a capability
C33_CapabilityWitness ==
    /\ last.op = "addFile"
    /\ heap[heap[last.file].parent].fetchFn # "none"

---------------------------------------------------------------------------
(* Entries of a directory handle: properties of SpecEntryInfo *)

\* C34 (entry stat info is a copy): what an entry that ReadDir has returned
\* reports as stat info (name, size, mode, modification time) is what the
\* child had when the handle was created, also after the child has been
\* opened and the open has downloaded its content and set its size.
C34_EntryInfoCopied ==
    \A h \in DOMAIN handles :
        \A i \in hist[h].returned :
            EntryInfo(heap, handles[h].entries[i]) = hist[h].made[i]

\* the entries of directories report what the directory had when the handle
\* was created
C34_DirEntriesCopied ==
    \A h \in DOMAIN handles :
        \A i \in hist[h].returned :
            handles[h].entries[i].ref = NilNode
                => EntryInfo(heap, handles[h].entries[i]) = hist[h].made[i]

\* an entry was returned for a file with a url and an advisory size, and the
\* file was then opened and downloaded
C34_DownloadedWitness ==
    /\ last.op = "newFileHandle" /\ last.got /\ ~last.isNil
    /\ last.preNode.size # heap[last.file].size
    /\ \E h \in DOMAIN handles :
           \E i \in hist[h].returned : handles[h].entries[i].ref = last.file

---------------------------------------------------------------------------
(* Listing and lookup: properties of SpecSnapshot *)

\* the names the entries of the handle made by the last newDirHandle report
ListedNames == EntryNames(heap, handles[last.h].entries)

\* the names under which the children of d resolve
LookupNames(d) == DOMAIN heap[d].children

NoAlias(d) == \A x \in DOMAIN heap[d].children : heap[heap[d].children[x]].name = x

\* the same for the directories in which every child is stored under its own
\* name
C35_ExceptAliases ==
    (last.op = "newDirHandle" /\ NoAlias(last.dir)) =>
        /\ \A i, j \in DOMAIN ListedNames : i # j => ListedNames[i] # ListedNames[j]
        /\ {ListedNames[i] : i \in DOMAIN ListedNames} = LookupNames(last.dir)

\* a handle was created on a directory into which an import had aliased a
\* link to a file
C35_AliasWitness ==
    /\ last.op = "newDirHandle"
    /\ \E x \in LookupNames(last.dir) :
           /\ IsFile(heap, heap[last.dir].children[x])
           /\ heap[heap[last.dir].children[x]].name # x

\* a handle was created on a directory with two children stored under their
\* own names, a file and a directory
C35_PlainWitness ==
    /\ last.op = "newDirHandle" /\ NoAlias(last.dir)
    /\ \E x, y \in LookupNames(last.dir) :
           IsFile(heap, heap[last.dir].children[x]) /\ IsDir(heap, heap[last.dir].children[y])

---------------------------------------------------------------------------
(* Tarball import: the shape of the node graph *)

\* the nodes that are children of a node of S in heap h
ChildrenOf(h, S) ==
    UNION {{h[n].children[x] : x \in DOMAIN h[n].children} : n \in {m \in S : IsDir(h, m)}}

RECURSIVE ReachedIn(_, _, _)
\* the nodes reached from the nodes of S by following children 0 to k times
ReachedIn(h, S, k) ==
    IF k = 0 THEN S ELSE S \cup ReachedIn(h, ChildrenOf(h, S), k - 1)

\* the nodes below d: reached from d by following children once or more
Below(h, d) == ReachedIn(h, ChildrenOf(h, {d}), Len(h))

\* C36 (no cycles): after newDir, addFile and imports that returned without
\* error, links to directories included, no directory is reached from itself
\* by following children.
C36_NoCycles ==
    (last.op # "tarballToTree" \/ ImportedAll) =>
        \A d \in Dirs(heap) : d \notin Below(heap, d)

\* an import returned without error whose last entry is a link to "..", the
\* directory above the directory of the link
C36_ParentLinkWitness ==
    /\ ImportedAll
    /\ last.archive[Len(last.archive)] = Link(<<"t", "b", "b">>, <<"..">>)

\* an import has aliased a link to a directory that is not above the link
C36_DirLinkWitness ==
    /\ ImportedAll
    /\ \E i \in Links(last.archive) :
           /\ IsDir(heap, Walk(heap, last.dir, LinkPath(last.archive[i])))
           /\ \A d \in Dirs(heap) : d \notin Below(heap, d)

\* the same for the imports of regular files and directories alone
C36_PlainImports ==
    (last.op # "tarballToTree" \/ ImportedPlain)
    => \A d \in Dirs(heap) : d \notin Below(heap, d)

---------------------------------------------------------------------------
(* File handles: size and content *)

\* C37 (size matches content): the size in the info of a handle that
\* file.newFileHandle returned, which is what Stat reports, is the number of
\* bytes of the content the handle was given; its Reads deliver no more than
\* that, and exactly that many once one has returned the end of the stream;
\* after a download the File holds the body and records its length as size,
\* whatever size it recorded before.
C37_SizeMatchesContent ==
    /\ \A h \in DOMAIN handles :
           /\ handles[h].info.size = Len(hist[h].content)
           /\ Len(hist[h].got) <= handles[h].info.size
           /\ hist[h].eof => Len(hist[h].got) = handles[h].info.size
    /\ (last.op = "Stat" /\ ~last.isNil) => last.info.size = Len(hist[last.h].content)
    /\ (last.op = "newFileHandle" /\ last.got /\ ~last.isNil) =>
           /\ heap[last.file].content = RemoteContent(last.preNode.url)
           /\ heap[last.file].size = Len(RemoteContent(last.preNode.url))

\* a file with an advisory size of three was opened and the download of its
\* two bytes replaced the size
C37_Witness ==
    /\ last.op = "newFileHandle" /\ last.got /\ ~last.isNil
    /\ last.preNode.size = 3
    /\ heap[last.file].size = 2
    /\ handles[last.h].info.size = 2

\* a handle on a downloaded file was read to the end of the stream in two
\* Reads and Stat reports the two bytes
C37_ReadWitness ==
    /\ last.op = "Stat" /\ ~last.isNil /\ last.info.size = 2
    /\ hist[last.h].eof /\ hist[last.h].got = <<1, 2>>
    /\ heap[hist[last.h].file].url # <<>>

---------------------------------------------------------------------------
(* Concurrent opens of one file: properties of SpecConcurrentOpen *)

\* the downloads that were issued and the opens that have returned, in order
OpenLog == IF last.op \in {"call", "lock", "check", "get", "return"} THEN last.log ELSE <<>>

Downloads == SelectSeq(OpenLog, LAMBDA e : e.op = "get")
Handed == SelectSeq(OpenLog, LAMBDA e : e.op = "return" /\ e.done)
Refused == SelectSeq(OpenLog, LAMBDA e : e.op = "return" /\ ~e.done)

\* the file as it was created needs a download
NotYetDownloaded ==
    Len(newFile(heap, Root, "a", last.opts).content) # newFile(heap, Root, "a", last.opts).size

\* the opens are serialized, no download is issued after one that succeeded
\* and every handle holds the same content
OpensSerialized ==
    /\ Cardinality({t \in Threads : HoldsFileMutex(threads[t])}) <= 1
    /\ \A i \in DOMAIN Downloads : Downloads[i].done => i = Len(Downloads)
    /\ \A i, j \in DOMAIN Handed : Handed[i].content = Handed[j].content

\* C38 as stated: after an open has downloaded the content no later open
\* issues a download, and when several threads open a file that has not been
\* downloaded the opens are serialized, exactly one download is issued and
\* every thread gets a handle with the same content.
C38_ExactlyOneDownload ==
    /\ OpensSerialized
    /\ (NotYetDownloaded /\ Len(Handed) + Len(Refused) >= 2) =>
           Len(Downloads) = 1 /\ Refused = <<>>

\* C38 amended: the opens are serialized on the File's lock; no download is
\* issued after one that succeeded, so at most one succeeds; a download that
\* fails leaves its thread without a handle and the next open downloads
\* again; once an open has returned a handle every open returns one, with
\* the same content.
C38_DownloadOnce ==
    /\ OpensSerialized
    /\ Len(Refused) <= Len(SelectSeq(Downloads, LAMBDA e : ~e.done))
    /\ \A i, j \in DOMAIN OpenLog :
           (i < j /\ OpenLog[i].op = "return" /\ OpenLog[i].done /\ OpenLog[j].op = "return")
               => OpenLog[j].done
    /\ (NotYetDownloaded /\ Handed # <<>>) =>
           Len(SelectSeq(Downloads, LAMBDA e : e.done)) = 1

\* both threads were in newFileHandle at the same time on a file that needed
\* a download; one download was issued and both have a handle with the two
\* bytes of the remote
C38_Witness ==
    /\ last.op = "return" /\ NotYetDownloaded
    /\ Len(Downloads) = 1 /\ Len(Handed) = 2
    /\ Handed[1].t # Handed[2].t
    /\ Handed[1].content = <<1, 2>>
    /\ OpenLog[2].op = "return" /\ OpenLog[3].op = "return"
    /\ \A t \in Threads : threads[t].pc = "idle"
    /\ last.n = 2

\* the first download failed and the open of the other thread, which was
\* waiting for the lock, downloaded again
C38_RetryWitness ==
    /\ last.op = "return" /\ NotYetDownloaded
    /\ Len(Downloads) = 2 /\ ~Downloads[1].done /\ Downloads[2].done
    /\ Downloads[1].t # Downloads[2].t
    /\ Len(Refused) = 1 /\ Len(Handed) = 1
    /\ last.n = 2

---------------------------------------------------------------------------
(* C39: an import returns *)

\* tarballToTree has been called and did not return: the type assertion
\* next.(*dir) of makeDirs failed
ImportPanicked == last.op = "tarballToTree" /\ last.panic

\* the files of a tree
FilesIn(h) == {n \in 1..Len(h) : h[n].kind = "file"}

\* C39: an import never crashes: tarballToTree returns success or an error
\* for every archive, also when a name that is a regular file is used as a
\* directory component or as a directory entry
C39_ImportNeverCrashes == ~ImportPanicked

\* the archive adds the regular file b and then a file below b
C39_FileAsComponent ==
    /\ ImportPanicked
    /\ last.archive = <<Reg(<<"t", "b">>, <<3>>), Reg(<<"t", "b", "a">>, <<2>>)>>
    /\ FilesIn(last.preHeap) = {}

\* the archive adds the regular file b and then the directory entry b/
C39_FileAsDirectoryEntry ==
    /\ ImportPanicked
    /\ last.archive = <<Reg(<<"t", "b">>, <<3>>), DirEntry(<<"t", "b", "">>)>>
    /\ FilesIn(last.preHeap) = {}

\* the names of the archive are directories only and the tree has no file:
\* every such import returns
C39_DirectoriesOnly ==
    (/\ last.op = "tarballToTree"
     /\ FilesIn(last.preHeap) = {}
     /\ \A i \in DOMAIN last.archive : last.archive[i].type = "dir")
        => ~last.panic

---------------------------------------------------------------------------
(* C40: exactly one successful Close *)

\* the calls of Close on handle h that have returned, in the order of return
ClosesOf(h) == SelectSeq(last.log, LAMBDA e : e.h = h)

\* a call of Close on handle h has set the flag: it is about to return nil
\* or has returned nil
CloseSucceeded(h) ==
    \/ \E t \in Threads : threads[t].pc = "return" /\ threads[t].h = h /\ threads[t].err = NoErr
    \/ \E i \in DOMAIN last.log : last.log[i].h = h /\ last.log[i].err = NoErr

\* C40: among the calls of Close on one handle, of a directory or of a file,
\* made one after the other or by several threads at once, exactly one
\* returns nil, the first to return, and all others fail with Closed; the
\* flag of a handle on which a Close has succeeded stays set.
C40_ExactlyOneClose ==
    \A h \in DOMAIN handles :
        /\ \A i \in DOMAIN ClosesOf(h) :
               IF i = 1 THEN ClosesOf(h)[i].err = NoErr
               ELSE ErrorIs(ClosesOf(h)[i].err, "ErrClosed")
        /\ Cardinality({t \in Threads : HoldsCloseMutex(threads[t], h)}) <= 1
        /\ CloseSucceeded(h) => handles[h].closed
        /\ handles[h].closed => CloseSucceeded(h)

\* the flag of a handle is never cleared
C40_ClosedStays ==
    [][\A h \in DOMAIN handles : handles[h].closed => handles'[h].closed]_vars

\* two threads were in Close on one file handle at the same time and a third
\* call followed: one nil and two Closed
C40_Witness ==
    \E h \in DOMAIN handles :
        /\ ~IsDirHandle(handles[h])
        /\ Len(ClosesOf(h)) = 3
        /\ ClosesOf(h)[1].overlap /\ ClosesOf(h)[2].overlap
        /\ ClosesOf(h)[1].t # ClosesOf(h)[2].t
        /\ ~ClosesOf(h)[3].overlap
        /\ handles[h].closed /\ handles[h].content = NoBuffer

\* the same on the handle of a directory with an entry
C40_DirWitness ==
    \E h \in DOMAIN handles :
        /\ IsDirHandle(handles[h])
        /\ handles[h].entries # <<>>
        /\ Len(ClosesOf(h)) = 3
        /\ ClosesOf(h)[1].overlap /\ ClosesOf(h)[2].overlap
        /\ ClosesOf(h)[1].t # ClosesOf(h)[2].t
        /\ handles[h].closed

\* Close on one handle leaves the other handle open: each handle has its own
\* flag and its own mutex
C40_OtherHandleWitness ==
    /\ Len(handles) = 2
    /\ Len(ClosesOf(1)) = 2 /\ Len(ClosesOf(2)) = 0
    /\ handles[1].closed /\ ~handles[2].closed
    /\ \E t \in Threads : HoldsCloseMutex(threads[t], 2)

====
